---- MODULE Spec2Model ----
(***************************************************************************)
(* Model of the n64js memory-mapped SP register device (src/src/devices/   *)
(* sp.js): register writes and reads, the STATUS command word, the DMA     *)
(* engine and the semaphore; of the VI register device                     *)
(* (src/src/devices/vi.js): register writes and reads, the video timing    *)
(* and the vertical-blank event; and of the mapped and the invalid memory  *)
(* device (src/src/devices/ram.js).                                        *)
(*                                                                         *)
(* Representation.  A 32-bit word is the set of its set bit positions      *)
(* (bit 0 is the least significant one), so that the JavaScript operators  *)
(* &, | and & ~ are intersection, union and set difference and a word      *)
(* keeps its 32-bit width.  A byte buffer (a MemoryRegion, its u8 view) is *)
(* zero-filled when allocated and is held the same way, as the set of its  *)
(* set bits: bit b of the byte at offset a has the bit address 8 * a + b.  *)
(***************************************************************************)
EXTENDS Integers, FiniteSets, Sequences, TLC

\* ---------------------------------------------------------------------------
\* 32-bit words
\* ---------------------------------------------------------------------------

\* The unsigned value of a word whose bit 31 is clear.
ToNat(w) ==
  LET v(i) == IF i \in w THEN 2^i ELSE 0
  IN v(0) + v(1) + v(2) + v(3) + v(4) + v(5) + v(6) + v(7)
     + v(8) + v(9) + v(10) + v(11) + v(12) + v(13) + v(14) + v(15)
     + v(16) + v(17) + v(18) + v(19) + v(20) + v(21) + v(22) + v(23)
     + v(24) + v(25) + v(26) + v(27) + v(28) + v(29) + v(30)

\* The word of a number below 2^31.
FromNat(n) == {i \in 0..30 : (n \div (2^i)) % 2 = 1}

\* The word of a 32-bit signed number (two's complement).
FromInt(n) == IF n >= 0 THEN FromNat(n) ELSE (0..31) \ FromNat((-n) - 1)

\* a < b on words read as unsigned numbers.
ULt(a, b) == \E i \in b \ a : \A j \in (i + 1)..31 : (j \in a) = (j \in b)

\* The number (a / b) >> 0 for numbers whose quotient is within 32 bits:
\* the quotient truncated towards zero, and 0 when b is 0 (the quotient is
\* then NaN or an infinity).
TruncDiv(a, b) ==
  IF b = 0 THEN 0
  ELSE LET abs(n) == IF n < 0 THEN -n ELSE n
           q == abs(a) \div abs(b)
       IN IF (a < 0) = (b < 0) THEN q ELSE -q

\* w >>> n
Shr(w, n) == {i - n : i \in {j \in w : j >= n}}

\* w << n, truncated to 32 bits
Shl(w, n) == {i + n : i \in {j \in w : j + n <= 31}}

\* ---------------------------------------------------------------------------
\* MemoryRegion: typed big-endian accessors over a byte buffer
\* ---------------------------------------------------------------------------

\* The bit address of bit i of the big-endian 32-bit word at offset ea.
BitAddr(ea, i) == 8 * (ea + 3 - (i \div 8)) + (i % 8)

getU32(mem, ea) == {i \in 0..31 : BitAddr(ea, i) \in mem}

set32(mem, ea, w) ==
  (mem \ ((8 * ea)..(8 * ea + 31))) \cup {BitAddr(ea, i) : i \in w}

\* Only the bits selected by mask are updated, the rest is preserved.
set32masked(mem, ea, w, mask) ==
  set32(mem, ea, (getU32(mem, ea) \ mask) \cup (w \cap mask))

setBits32(mem, ea, bits) == set32(mem, ea, getU32(mem, ea) \cup bits)

clearBits32(mem, ea, bits) == set32(mem, ea, getU32(mem, ea) \ bits)

\* The accessors under the names vi.js calls them by.
readU32(mem, ea) == getU32(mem, ea)
readS32(mem, ea) == getU32(mem, ea)
write32(mem, ea, w) == set32(mem, ea, w)

\* The bit address of bit i of the big-endian n-byte value at offset ea.
BitAddrN(ea, n, i) == 8 * (ea + (n - 1) - (i \div 8)) + (i % 8)

\* The n-byte value at offset ea, and the buffer with it replaced.
getU(mem, ea, n) == {i \in 0..(8 * n - 1) : BitAddrN(ea, n, i) \in mem}

setN(mem, ea, n, w) ==
  (mem \ ((8 * ea)..(8 * (ea + n) - 1)))
    \cup {BitAddrN(ea, n, i) : i \in w \cap (0..(8 * n - 1))}

\* The n-byte value w as a signed number, in 32-bit two's complement.
SignExtend(w, n) == IF (8 * n - 1) \in w THEN w \cup ((8 * n)..31) ELSE w

readU16(mem, ea) == getU(mem, ea, 2)
readU8(mem, ea) == getU(mem, ea, 1)
readS16(mem, ea) == SignExtend(getU(mem, ea, 2), 2)
readS8(mem, ea) == SignExtend(getU(mem, ea, 1), 1)
write16(mem, ea, w) == setN(mem, ea, 2, w)
write8(mem, ea, w) == setN(mem, ea, 1, w)
write32masked(mem, ea, w, mask) == set32masked(mem, ea, w, mask)

\* The 64-bit masked write: value and mask are sets of bits 0..63.
write64masked(mem, ea, w, mask) ==
  setN(mem, ea, 8, (getU(mem, ea, 8) \ mask) \cup (w \cap mask))

\* The u8 view of a buffer of n bytes, a byte being the set of its set
\* bits.  Reading outside the array yields undefined, which a store into
\* another Uint8Array turns into 0; writing outside is ignored.
u8get(arr, n, a) ==
  IF a < 0 \/ a >= n THEN {} ELSE {b \in 0..7 : 8 * a + b \in arr}

u8set(arr, n, a, v) ==
  IF a < 0 \/ a >= n THEN arr
  ELSE (arr \ ((8 * a)..(8 * a + 7))) \cup {8 * a + b : b \in v}

\* ---------------------------------------------------------------------------
\* sp.js constants
\* ---------------------------------------------------------------------------

SP_MEM_ADDR_REG == 0
SP_DRAM_ADDR_REG == 4
SP_RD_LEN_REG == 8
SP_WR_LEN_REG == 12
SP_STATUS_REG == 16
SP_DMA_FULL_REG == 20
SP_DMA_BUSY_REG == 24
SP_SEMAPHORE_REG == 28

\* Mutant: every bit of MEM_ADDR is writable.
memAddrWritableBits_all == 0..31
memAddrWritableBits == 3..31                       \* 0xffff_fff8
\* Mutant: only the 24 address bits of DRAM_ADDR are kept.
dramAddrWritableBits_24 == 3..23
dramAddrWritableBits == 3..31                      \* 0xffff_fff8
\* Mutant: the three low bits of the skip field are writable.
readLenWritableBits_skipLow == 3..31
readLenWritableBits == (3..19) \cup (23..31)       \* 0xff8f_fff8
writeLenWritableBits == (3..19) \cup (23..31)      \* 0xff8f_fff8

\* Mutant: no bank bit, every transfer goes to the low bank.
memAddrBankBit_none == {}
memAddrBankBit == {12}                             \* 0x1000

lenRegSkipMask == 20..31                           \* 0xfff0_0000
lenRegSkipShift == 20
lenRegCountMask == 12..19                          \* 0x000f_f000
lenRegCountShift == 12
lenRegLenMask == 0..11                             \* 0x0000_0fff
lenRegLenShift == 0

SP_CLR_HALT == {0}
SP_SET_HALT == {1}
SP_CLR_BROKE == {2}
SP_CLR_INTR == {3}
SP_SET_INTR == {4}
SP_CLR_SSTEP == {5}
SP_SET_SSTEP == {6}
SP_CLR_INTR_BREAK == {7}
SP_SET_INTR_BREAK == {8}
SP_CLR_SIG0 == {9}
SP_SET_SIG0 == {10}
SP_CLR_SIG1 == {11}
SP_SET_SIG1 == {12}
SP_CLR_SIG2 == {13}
SP_SET_SIG2 == {14}
SP_CLR_SIG3 == {15}
SP_SET_SIG3 == {16}
SP_CLR_SIG4 == {17}
SP_SET_SIG4 == {18}
SP_CLR_SIG5 == {19}
SP_SET_SIG5 == {20}
SP_CLR_SIG6 == {21}
SP_SET_SIG6 == {22}
SP_CLR_SIG7 == {23}
SP_SET_SIG7 == {24}

SP_STATUS_HALT == {0}
SP_STATUS_BROKE == {1}
SP_STATUS_DMA_BUSY == {2}
SP_STATUS_DMA_FULL == {3}
SP_STATUS_IO_FULL == {4}
SP_STATUS_SSTEP == {5}
SP_STATUS_INTR_BREAK == {6}
SP_STATUS_SIG0 == {7}
SP_STATUS_SIG1 == {8}
SP_STATUS_SIG2 == {9}
SP_STATUS_SIG3 == {10}
SP_STATUS_SIG4 == {11}
SP_STATUS_SIG5 == {12}
SP_STATUS_SIG6 == {13}
SP_STATUS_SIG7 == {14}
SP_STATUS_TASKDONE == SP_STATUS_SIG2

emulateRSP == TRUE

\* The SP bit of the interrupt controller's MI_INTR register.
MI_INTR_SP == {0}

SPIBIST_PC_REG == 0
pcWritableBits == 2..11      \* 0xffc

\* Lengths of the backing buffers.
SpIbistLength == 8
SpRegLength == 32
SpMemLength == 8192
RamLength == 8388608

\* ---------------------------------------------------------------------------
\* vi.js and system_constants.js constants
\* ---------------------------------------------------------------------------

OS_TV_PAL == 0
OS_TV_NTSC == 1
OS_TV_MPAL == 2

VI_STATUS_REG == 0
VI_ORIGIN_REG == 4
VI_WIDTH_REG == 8
VI_INTR_REG == 12
VI_CURRENT_REG == 16
VI_BURST_REG == 20
VI_V_SYNC_REG == 24
VI_H_SYNC_REG == 28
VI_LEAP_REG == 32
VI_H_START_REG == 36
VI_V_START_REG == 40
VI_V_BURST_REG == 44
VI_X_SCALE_REG == 48
VI_Y_SCALE_REG == 52

VI_CONTROL_REG == VI_STATUS_REG
VI_V_INTR_REG == VI_INTR_REG

VI_CTRL_SERRATE_ON == {6}                          \* 0x00040

VI_PAL_CLOCK == 49656530
VI_NTSC_CLOCK == 48681812
VI_MPAL_CLOCK == 48628316

\* The VI bit of the interrupt controller's MI_INTR register.
MI_INTR_VI == {3}

\* Length of hardware.vi_reg: 16 registers of 32 bits.
ViRegLength == 64

\* ---------------------------------------------------------------------------
\* Bounds of the model
\* ---------------------------------------------------------------------------

\* DMA transfers in one behaviour.
MaxDma == 2
\* Guest stores into RDRAM and SP memory in one behaviour.
MaxMemWrites == 1
\* STATUS writes in one behaviour of the STATUS specification.
MaxStatus == 2
\* VI register writes and reads in one behaviour.
MaxVi == 3
\* Vertical-blank events in one behaviour.
MaxVbl == 2
\* Stores through the mapped-memory device that change RDRAM.
MaxMem == 1
\* Guest stores into SP memory in the SP memory specification.
MaxSpStores == 2

\* ---------------------------------------------------------------------------
\* State
\* ---------------------------------------------------------------------------

VARIABLES
  sp_reg,    \* hardware.sp_reg: the SP register file
  sp_mem,    \* hardware.sp_mem: SP memory
  ram,       \* hardware.ram: RDRAM
  mi_intr,   \* hardware.mi_reg MI_INTR_REG, as a word
  semHist,   \* SEMAPHORE accesses: "none" before the first write, then
             \* "written", "read once" or "read again" since the last write
  nDma,      \* DMA transfers run so far
  nMemWrites,\* guest stores into memory so far
  nStatus,   \* STATUS writes so far
  probe,     \* argument and results of the last length-register decode
  sp_ibist,  \* hardware.sp_ibist_mem: the SP PC and IBIST registers
  last,      \* the last operation: its arguments, the state it started
             \* from, what it returned and the external calls it made
  vi_reg,    \* hardware.vi_reg: the VI register file
  vi,        \* the fields of the VIRegDevice and the TV type of the ROM
  vbl,       \* the vblank event of n64js.cpu0: whether one is pending and
             \* the cycles left until it fires
  nVi,       \* VI register accesses so far
  nVbl,      \* vertical-blank events so far
  viLast,    \* the last VI operation, what it returned and what it called
  nMem,      \* stores through the mapped-memory device that changed RDRAM
  memLast    \* the last access through the mapped or the invalid memory
             \* device: its arguments, what it returned and what it called

vars == <<sp_reg, sp_mem, ram, mi_intr, semHist, nDma, nMemWrites, nStatus, probe, last,
          sp_ibist,
          vi_reg, vi, vbl, nVi, nVbl, viLast, nMem, memLast>>

\* The variables of the VI device, and those of the SP device; the
\* interrupt controller is shared.
viVars == <<vi_reg, vi, vbl, nVi, nVbl, viLast>>
spVars == <<sp_reg, sp_mem, ram, semHist, nDma, nMemWrites, nStatus, probe, last,
            sp_ibist>>
memVars == <<nMem, memLast>>

\* ---------------------------------------------------------------------------
\* The machine during one handler: the device state plus the calls made
\* ---------------------------------------------------------------------------

NoDma == [ran |-> "none", spMemAddr |-> 0, rdRamAddr |-> 0, len |-> 0,
          count |-> 0, skip |-> 0, bankBit |-> 0]

Enter ==
  [sp_reg |-> sp_reg, sp_mem |-> sp_mem, ram |-> ram, mi_intr |-> mi_intr,
   nCause |-> 0,          \* calls of n64js.cpu0.updateCause3()
   nDispatch |-> 0,       \* calls of hleProcessRSPTask()
   nStart |-> 0,          \* calls of n64js.rsp.startExecution()
   stored |-> {},         \* STATUS as stored by spUpdateStatus
   dma |-> NoDma,
   threw |-> FALSE]

\* mi.js MIRegDevice.interruptSP: raise the SP interrupt.
interruptSP(m) ==
  [m EXCEPT !.mi_intr = @ \cup MI_INTR_SP, !.nCause = @ + 1]

\* Mutant: the interrupt is raised whatever INTR_BREAK is.
halt_alwaysIntr(m) ==
  LET reg == setBits32(m.sp_reg, SP_STATUS_REG,
                       SP_STATUS_TASKDONE \cup SP_STATUS_BROKE \cup SP_STATUS_HALT)
  IN interruptSP([m EXCEPT !.sp_reg = reg])

halt(m) ==
  LET reg == setBits32(m.sp_reg, SP_STATUS_REG,
                       SP_STATUS_TASKDONE \cup SP_STATUS_BROKE \cup SP_STATUS_HALT)
      status == getU32(reg, SP_STATUS_REG)
      m1 == [m EXCEPT !.sp_reg = reg]
  IN IF status \cap SP_STATUS_INTR_BREAK # {} THEN interruptSP(m1) ELSE m1

\* Mutant: the SET bit wins over the CLR bit.
setOrClear_setWins(statusBits, flags, clrMask, setMask, bit) ==
  IF flags \cap setMask # {} THEN statusBits \cup bit
  ELSE IF flags \cap clrMask # {} THEN statusBits \ bit
  ELSE statusBits

setOrClear(statusBits, flags, clrMask, setMask, bit) ==
  LET set == flags \cap setMask
      clr == flags \cap clrMask
  IN IF set # {} /\ clr = {} THEN statusBits \cup bit
     ELSE IF clr # {} /\ set = {} THEN statusBits \ bit
     ELSE statusBits

\* The HALT part of the command word: <<statusBits, startRsp, stopRsp>>.
statusHalt(statusBits, flags) ==
  IF flags \cap SP_SET_HALT # {} /\ flags \cap SP_CLR_HALT # {}
    THEN <<statusBits, FALSE, FALSE>>
  ELSE IF flags \cap SP_SET_HALT # {}
    THEN <<statusBits \cup SP_STATUS_HALT, FALSE, TRUE>>
  ELSE IF flags \cap SP_CLR_HALT # {}
    THEN <<statusBits \ SP_STATUS_HALT, TRUE, FALSE>>
  ELSE <<statusBits, FALSE, FALSE>>

\* Mutant: SET_INTR and CLR_INTR are swapped.
statusIntr_swapped(m, flags) ==
  IF flags \cap SP_SET_INTR # {} /\ flags \cap SP_CLR_INTR # {} THEN m
  ELSE IF flags \cap SP_CLR_INTR # {}
    THEN [m EXCEPT !.mi_intr = @ \cup MI_INTR_SP, !.nCause = @ + 1]
  ELSE IF flags \cap SP_SET_INTR # {}
    THEN [m EXCEPT !.mi_intr = @ \ MI_INTR_SP, !.nCause = @ + 1]
  ELSE m

\* The INTR part of the command word, acting on the interrupt controller.
statusIntr(m, flags) ==
  IF flags \cap SP_SET_INTR # {} /\ flags \cap SP_CLR_INTR # {} THEN m
  ELSE IF flags \cap SP_SET_INTR # {}
    THEN [m EXCEPT !.mi_intr = @ \cup MI_INTR_SP, !.nCause = @ + 1]
  ELSE IF flags \cap SP_CLR_INTR # {}
    THEN [m EXCEPT !.mi_intr = @ \ MI_INTR_SP, !.nCause = @ + 1]
  ELSE m

\* Mutant: BROKE is paired with SET_HALT as its SET bit.
statusFlags_brokePaired(statusBits, flags) ==
  LET s0 == setOrClear(statusBits, flags, SP_CLR_BROKE, SP_SET_HALT, SP_STATUS_BROKE)
      s1 == setOrClear(s0, flags, SP_CLR_SSTEP, SP_SET_SSTEP, SP_STATUS_SSTEP)
      s2 == setOrClear(s1, flags, SP_CLR_INTR_BREAK, SP_SET_INTR_BREAK, SP_STATUS_INTR_BREAK)
      s3 == setOrClear(s2, flags, SP_CLR_SIG0, SP_SET_SIG0, SP_STATUS_SIG0)
      s4 == setOrClear(s3, flags, SP_CLR_SIG1, SP_SET_SIG1, SP_STATUS_SIG1)
      s5 == setOrClear(s4, flags, SP_CLR_SIG2, SP_SET_SIG2, SP_STATUS_SIG2)
      s6 == setOrClear(s5, flags, SP_CLR_SIG3, SP_SET_SIG3, SP_STATUS_SIG3)
      s7 == setOrClear(s6, flags, SP_CLR_SIG4, SP_SET_SIG4, SP_STATUS_SIG4)
      s8 == setOrClear(s7, flags, SP_CLR_SIG5, SP_SET_SIG5, SP_STATUS_SIG5)
      s9 == setOrClear(s8, flags, SP_CLR_SIG6, SP_SET_SIG6, SP_STATUS_SIG6)
  IN setOrClear(s9, flags, SP_CLR_SIG7, SP_SET_SIG7, SP_STATUS_SIG7)

\* The generic flags of the command word.
statusFlags(statusBits, flags) ==
  LET s0 == setOrClear(statusBits, flags, SP_CLR_BROKE, {}, SP_STATUS_BROKE)
      s1 == setOrClear(s0, flags, SP_CLR_SSTEP, SP_SET_SSTEP, SP_STATUS_SSTEP)
      s2 == setOrClear(s1, flags, SP_CLR_INTR_BREAK, SP_SET_INTR_BREAK, SP_STATUS_INTR_BREAK)
      s3 == setOrClear(s2, flags, SP_CLR_SIG0, SP_SET_SIG0, SP_STATUS_SIG0)
      s4 == setOrClear(s3, flags, SP_CLR_SIG1, SP_SET_SIG1, SP_STATUS_SIG1)
      s5 == setOrClear(s4, flags, SP_CLR_SIG2, SP_SET_SIG2, SP_STATUS_SIG2)
      s6 == setOrClear(s5, flags, SP_CLR_SIG3, SP_SET_SIG3, SP_STATUS_SIG3)
      s7 == setOrClear(s6, flags, SP_CLR_SIG4, SP_SET_SIG4, SP_STATUS_SIG4)
      s8 == setOrClear(s7, flags, SP_CLR_SIG5, SP_SET_SIG5, SP_STATUS_SIG5)
      s9 == setOrClear(s8, flags, SP_CLR_SIG6, SP_SET_SIG6, SP_STATUS_SIG6)
  IN setOrClear(s9, flags, SP_CLR_SIG7, SP_SET_SIG7, SP_STATUS_SIG7)

\* Mutant: startExecution() runs whatever hleProcessRSPTask() returned.
startRsp_alwaysStart(m, taskDispatched, hookHalts) ==
  LET m1 == [m EXCEPT !.nDispatch = @ + 1, !.nStart = @ + 1]
  IN IF hookHalts THEN halt(m1) ELSE m1

\* The start of the coprocessor after CLR_HALT.  hleProcessRSPTask() and
\* n64js.rsp.startExecution() are external: taskDispatched is the result
\* of the former, and hookHalts tells whether the hook that ran finished
\* its work by calling halt() on the device.
startRsp(m, taskDispatched, hookHalts) ==
  LET m1 == [m EXCEPT !.nDispatch = @ + 1]
      m2 == IF taskDispatched THEN m1
            ELSE IF emulateRSP THEN [m1 EXCEPT !.nStart = @ + 1]
            ELSE halt(m1)
  IN IF hookHalts THEN halt(m2) ELSE m2

\* Mutant: the new STATUS is stored after the start hook has run.
spUpdateStatus_storesAfterHook(m, flags, taskDispatched, hookHalts) ==
  LET statusBits == getU32(m.sp_reg, SP_STATUS_REG)
      h == statusHalt(statusBits, flags)
      m1 == statusIntr(m, flags)
      stored == statusFlags(h[1], flags)
      m2 == IF h[2] THEN startRsp(m1, taskDispatched, hookHalts) ELSE m1
  IN [m2 EXCEPT !.sp_reg = set32(@, SP_STATUS_REG, stored),
                !.stored = stored]

spUpdateStatus(m, flags, taskDispatched, hookHalts) ==
  LET statusBits == getU32(m.sp_reg, SP_STATUS_REG)
      h == statusHalt(statusBits, flags)
      m1 == statusIntr(m, flags)
      stored == statusFlags(h[1], flags)
      m2 == [m1 EXCEPT !.sp_reg = set32(@, SP_STATUS_REG, stored),
                       !.stored = stored]
  IN IF h[2] THEN startRsp(m2, taskDispatched, hookHalts) ELSE m2

\* ---------------------------------------------------------------------------
\* DMA
\* ---------------------------------------------------------------------------

\* Mutant: the length is not rounded up to a multiple of 8.
rdLen_noRound(lenReg) == ToNat(Shr(lenReg \cap lenRegLenMask, lenRegLenShift)) + 1

\* Decoding of the length register in spCopyFromRDRAM.
rdLen(lenReg) == ToNat(Shr(lenReg \cap lenRegLenMask, lenRegLenShift) \cup {0, 1, 2}) + 1
rdCount(lenReg) == ToNat(Shr(lenReg \cap lenRegCountMask, lenRegCountShift)) + 1
rdSkip(lenReg) == ToNat(Shr(lenReg \cap lenRegSkipMask, lenRegSkipShift))

\* Decoding of the length register in spCopyToRDRAM.
wrLen(lenReg) == ToNat(Shr(lenReg \cap lenRegLenMask, lenRegLenShift) \cup {0, 1, 2}) + 1
wrCount(lenReg) == ToNat(Shr(lenReg \cap lenRegCountMask, lenRegCountShift)) + 1
wrSkip(lenReg) == ToNat(Shr(lenReg \cap lenRegSkipMask, lenRegSkipShift))

\* Mutant: the SP offset wraps in the whole SP memory, not in its bank.
spOffset_noBank(bankBit, memOffset) == memOffset % 8192

\* bankBit | (memOffset & 0xfff), on numbers: bankBit is 0 or 0x1000, so
\* the two operands have no bit in common.
spOffset(bankBit, memOffset) == bankBit + (memOffset % 4096)

\* The loops of spCopyFromRDRAM over st = [sp_mem, ram, memOffset, ramOffset].
RECURSIVE fromInner(_, _, _, _)
fromInner(st, i, len, bankBit) ==
  IF i >= len THEN st
  ELSE fromInner(
         [st EXCEPT !.sp_mem = u8set(@, SpMemLength, spOffset(bankBit, st.memOffset),
                                     u8get(st.ram, RamLength, st.ramOffset)),
                    !.memOffset = @ + 1,
                    !.ramOffset = @ + 1],
         i + 1, len, bankBit)

RECURSIVE fromOuter(_, _, _, _, _, _)
fromOuter(st, c, count, len, skip, bankBit) ==
  IF c >= count THEN st
  ELSE fromOuter([fromInner(st, 0, len, bankBit) EXCEPT !.ramOffset = @ + skip],
                 c + 1, count, len, skip, bankBit)

\* The loops of spCopyToRDRAM.
RECURSIVE toInner(_, _, _, _)
toInner(st, i, len, bankBit) ==
  IF i >= len THEN st
  ELSE toInner(
         [st EXCEPT !.ram = u8set(@, RamLength, st.ramOffset,
                                  u8get(st.sp_mem, SpMemLength, spOffset(bankBit, st.memOffset))),
                    !.ramOffset = @ + 1,
                    !.memOffset = @ + 1],
         i + 1, len, bankBit)

RECURSIVE toOuter(_, _, _, _, _, _)
toOuter(st, c, count, len, skip, bankBit) ==
  IF c >= count THEN st
  ELSE toOuter([toInner(st, 0, len, bankBit) EXCEPT !.ramOffset = @ + skip],
               c + 1, count, len, skip, bankBit)

\* Mutant: only RD_LEN is reset at the end of a transfer.
dmaFinish_oneLen(reg, bankBit, memOffset, ramOffset) ==
  LET r1 == set32(reg, SP_MEM_ADDR_REG, FromNat(spOffset(bankBit, memOffset)))
      r2 == set32(r1, SP_DRAM_ADDR_REG, FromNat(ramOffset))
      r3 == set32masked(r2, SP_RD_LEN_REG, Shl(FromNat(4088), lenRegLenShift),
                        lenRegCountMask \cup lenRegLenMask)
      r5 == setBits32(r3, SP_DMA_BUSY_REG, {})
  IN clearBits32(r5, SP_STATUS_REG, SP_STATUS_DMA_BUSY)

\* Mutant: the busy flag is set instead of cleared.
dmaFinish_setsBusy(reg, bankBit, memOffset, ramOffset) ==
  LET r1 == set32(reg, SP_MEM_ADDR_REG, FromNat(spOffset(bankBit, memOffset)))
      r2 == set32(r1, SP_DRAM_ADDR_REG, FromNat(ramOffset))
      r3 == set32masked(r2, SP_RD_LEN_REG, Shl(FromNat(4088), lenRegLenShift),
                        lenRegCountMask \cup lenRegLenMask)
      r4 == set32masked(r3, SP_WR_LEN_REG, Shl(FromNat(4088), lenRegLenShift),
                        lenRegCountMask \cup lenRegLenMask)
      r5 == setBits32(r4, SP_DMA_BUSY_REG, {})
  IN setBits32(r5, SP_STATUS_REG, SP_STATUS_DMA_BUSY)

\* The register update at the end of a transfer, the same in both copies.
dmaFinish(reg, bankBit, memOffset, ramOffset) ==
  LET r1 == set32(reg, SP_MEM_ADDR_REG, FromNat(spOffset(bankBit, memOffset)))
      r2 == set32(r1, SP_DRAM_ADDR_REG, FromNat(ramOffset))
      r3 == set32masked(r2, SP_RD_LEN_REG, Shl(FromNat(4088), lenRegLenShift),
                        lenRegCountMask \cup lenRegLenMask)
      r4 == set32masked(r3, SP_WR_LEN_REG, Shl(FromNat(4088), lenRegLenShift),
                        lenRegCountMask \cup lenRegLenMask)
      r5 == setBits32(r4, SP_DMA_BUSY_REG, {})
  IN clearBits32(r5, SP_STATUS_REG, SP_STATUS_DMA_BUSY)

spCopyFromRDRAM(m) ==
  LET spMemAddr == ToNat(getU32(m.sp_reg, SP_MEM_ADDR_REG) \cap (0..12))
      rdRamAddr == ToNat(getU32(m.sp_reg, SP_DRAM_ADDR_REG) \cap (0..23))
      lenReg == getU32(m.sp_reg, SP_RD_LEN_REG)
      len == rdLen(lenReg)
      count == rdCount(lenReg)
      skip == rdSkip(lenReg)
      bankBit == ToNat(FromNat(spMemAddr) \cap memAddrBankBit)
      st == fromOuter([sp_mem |-> m.sp_mem, ram |-> m.ram,
                       memOffset |-> spMemAddr, ramOffset |-> rdRamAddr],
                      0, count, len, skip, bankBit)
  IN [m EXCEPT !.sp_mem = st.sp_mem,
               !.sp_reg = dmaFinish(@, bankBit, st.memOffset, st.ramOffset),
               !.dma = [ran |-> "from", spMemAddr |-> spMemAddr, rdRamAddr |-> rdRamAddr,
                        len |-> len, count |-> count, skip |-> skip, bankBit |-> bankBit]]

\* Mutant: the DMA to RDRAM clears SP memory behind it.
spCopyToRDRAM_clearsSource(m) ==
  LET spMemAddr == ToNat(getU32(m.sp_reg, SP_MEM_ADDR_REG) \cap (0..12))
      rdRamAddr == ToNat(getU32(m.sp_reg, SP_DRAM_ADDR_REG) \cap (0..23))
      lenReg == getU32(m.sp_reg, SP_WR_LEN_REG)
      len == wrLen(lenReg)
      count == wrCount(lenReg)
      skip == wrSkip(lenReg)
      bankBit == ToNat(FromNat(spMemAddr) \cap memAddrBankBit)
      st == toOuter([sp_mem |-> m.sp_mem, ram |-> m.ram,
                     memOffset |-> spMemAddr, ramOffset |-> rdRamAddr],
                    0, count, len, skip, bankBit)
  IN [m EXCEPT !.ram = st.ram,
               !.sp_mem = {},
               !.sp_reg = dmaFinish(@, bankBit, st.memOffset, st.ramOffset),
               !.dma = [ran |-> "to", spMemAddr |-> spMemAddr, rdRamAddr |-> rdRamAddr,
                        len |-> len, count |-> count, skip |-> skip, bankBit |-> bankBit]]

spCopyToRDRAM(m) ==
  LET spMemAddr == ToNat(getU32(m.sp_reg, SP_MEM_ADDR_REG) \cap (0..12))
      rdRamAddr == ToNat(getU32(m.sp_reg, SP_DRAM_ADDR_REG) \cap (0..23))
      lenReg == getU32(m.sp_reg, SP_WR_LEN_REG)
      len == wrLen(lenReg)
      count == wrCount(lenReg)
      skip == wrSkip(lenReg)
      bankBit == ToNat(FromNat(spMemAddr) \cap memAddrBankBit)
      st == toOuter([sp_mem |-> m.sp_mem, ram |-> m.ram,
                     memOffset |-> spMemAddr, ramOffset |-> rdRamAddr],
                    0, count, len, skip, bankBit)
  IN [m EXCEPT !.ram = st.ram,
               !.sp_reg = dmaFinish(@, bankBit, st.memOffset, st.ramOffset),
               !.dma = [ran |-> "to", spMemAddr |-> spMemAddr, rdRamAddr |-> rdRamAddr,
                        len |-> len, count |-> count, skip |-> skip, bankBit |-> bankBit]]

\* ---------------------------------------------------------------------------
\* Register writes and reads
\* ---------------------------------------------------------------------------

\* Mutant: DMA_FULL and DMA_BUSY are written through.
writeReg32_fullWritable(m, ea, value, taskDispatched, hookHalts) ==
  IF ea + 4 > SpRegLength THEN [m EXCEPT !.threw = TRUE]
  ELSE CASE ea = SP_MEM_ADDR_REG ->
              [m EXCEPT !.sp_reg = set32(@, ea, value \cap memAddrWritableBits)]
         [] ea = SP_DRAM_ADDR_REG ->
              [m EXCEPT !.sp_reg = set32(@, ea, value \cap dramAddrWritableBits)]
         [] ea = SP_RD_LEN_REG ->
              spCopyFromRDRAM([m EXCEPT !.sp_reg = set32(@, ea, value \cap readLenWritableBits)])
         [] ea = SP_WR_LEN_REG ->
              spCopyToRDRAM([m EXCEPT !.sp_reg = set32(@, ea, value \cap writeLenWritableBits)])
         [] ea = SP_STATUS_REG ->
              spUpdateStatus(m, value, taskDispatched, hookHalts)
         [] ea = SP_DMA_FULL_REG \/ ea = SP_DMA_BUSY_REG ->
              [m EXCEPT !.sp_reg = set32(@, ea, value)]
         [] ea = SP_SEMAPHORE_REG ->
              [m EXCEPT !.sp_reg = set32(@, ea, {})]
         [] OTHER -> [m EXCEPT !.threw = TRUE]

writeReg32(m, ea, value, taskDispatched, hookHalts) ==
  IF ea + 4 > SpRegLength THEN [m EXCEPT !.threw = TRUE]
  ELSE CASE ea = SP_MEM_ADDR_REG ->
              [m EXCEPT !.sp_reg = set32(@, ea, value \cap memAddrWritableBits)]
         [] ea = SP_DRAM_ADDR_REG ->
              [m EXCEPT !.sp_reg = set32(@, ea, value \cap dramAddrWritableBits)]
         [] ea = SP_RD_LEN_REG ->
              spCopyFromRDRAM([m EXCEPT !.sp_reg = set32(@, ea, value \cap readLenWritableBits)])
         [] ea = SP_WR_LEN_REG ->
              spCopyToRDRAM([m EXCEPT !.sp_reg = set32(@, ea, value \cap writeLenWritableBits)])
         [] ea = SP_STATUS_REG ->
              spUpdateStatus(m, value, taskDispatched, hookHalts)
         [] ea = SP_DMA_FULL_REG \/ ea = SP_DMA_BUSY_REG -> m
         [] ea = SP_SEMAPHORE_REG ->
              [m EXCEPT !.sp_reg = set32(@, ea, {})]
         \* The default case builds its log line from `address`, which is
         \* not declared in writeReg32(ea, value): evaluating it throws a
         \* ReferenceError before mem.set32(ea, value) is reached.
         [] OTHER -> [m EXCEPT !.threw = TRUE]

\* Mutant: a read of SEMAPHORE leaves the register as it is.
readRegU32_noSet(reg, ea) ==
  IF ea + 4 > SpRegLength THEN <<{}, reg, TRUE>>
  ELSE <<getU32(reg, ea), reg, FALSE>>

\* <<value returned, register file afterwards, thrown>>
readRegU32(reg, ea) ==
  IF ea + 4 > SpRegLength THEN <<{}, reg, TRUE>>
  ELSE LET value == getU32(reg, ea)
       IN IF ea = SP_SEMAPHORE_REG THEN <<value, set32(reg, ea, {0}), FALSE>>
          ELSE <<value, reg, FALSE>>

\* ---------------------------------------------------------------------------
\* Guest stores that fill the memories a DMA copies
\* ---------------------------------------------------------------------------

\* SPIBISTDevice.write32 at effective address ea: only the PC register is
\* stored, any other offset is logged.
ibistWrite32(mem, ea, value) ==
  IF ea = SPIBIST_PC_REG THEN set32(mem, ea, value \cap pcWritableBits)
  ELSE mem

\* Mutant: SP memory does not wrap.
calcEA_noWrap(offset) == offset

\* SPMemDevice.calcEA on offset = address - rangeStart: SP memory wraps.
calcEA(offset) == offset % 8192

\* SPMemDevice.write64: only the upper 32 bits of the value, a set of bits
\* 0..63, are written.
spMemWrite64(arr, offset, value) ==
  LET ea == calcEA(offset)
  IN set32(arr, ea, {b - 32 : b \in value \cap (32..63)})

\* Mutant: the store halfword instruction writes the 16 bits it names.
spMemWrite16_halfword(arr, offset, value) ==
  LET ea == calcEA(offset)
  IN setN(arr, ea - (ea % 2), 2, value)

\* SPMemDevice.write16: the store halfword instruction writes a whole word.
spMemWrite16(arr, offset, value) ==
  LET ea == calcEA(offset)
      aligned == ea - (ea % 4)
      shift == 8 * (2 - (IF ea % 4 >= 2 THEN 2 ELSE 0))
  IN set32(arr, aligned, Shl(value, shift))

\* SPMemDevice.write8: the store byte instruction writes a whole word.
spMemWrite8(arr, offset, value) ==
  LET ea == calcEA(offset)
      aligned == ea - (ea % 4)
      shift == 8 * (3 - (ea % 4))
  IN set32(arr, aligned, Shl(value, shift))

\* CachedMemDevice.write32 on off = address - 0x80000000: DataView.setUint32
\* throws a RangeError, and stores nothing, unless the four bytes lie inside
\* the buffer.
cachedWrite32(m, off, value) ==
  IF off < 0 \/ off + 4 > RamLength THEN [m EXCEPT !.threw = TRUE]
  ELSE [m EXCEPT !.ram = set32(@, off, value)]

\* ---------------------------------------------------------------------------
\* The VI device
\* ---------------------------------------------------------------------------

videoClockForTVType(tvType) ==
  CASE tvType = OS_TV_PAL -> VI_PAL_CLOCK
    [] tvType = OS_TV_NTSC -> VI_NTSC_CLOCK
    [] tvType = OS_TV_MPAL -> VI_MPAL_CLOCK
    [] OTHER -> VI_NTSC_CLOCK

refreshRateForTVType(tvType) == IF tvType = OS_TV_PAL THEN 50 ELSE 60

\* The device fields the constructor sets before it calls reset().
ViConstructed(tvType) ==
  [tvType |-> tvType, curVbl |-> 0, lastVbl |-> 0, field |-> 0, clock |-> 0,
   refreshRate |-> 0, countPerScanline |-> 0, countPerVbl |-> 0]

\* Mutant: reset also returns to field 0.
reset_clearsField(d) ==
  [d EXCEPT !.clock = videoClockForTVType(d.tvType),
            !.refreshRate = refreshRateForTVType(d.tvType),
            !.countPerScanline = 0,
            !.countPerVbl = 0,
            !.field = 0]

reset(d) ==
  [d EXCEPT !.clock = videoClockForTVType(d.tvType),
            !.refreshRate = refreshRateForTVType(d.tvType),
            !.countPerScanline = 0,
            !.countPerVbl = 0]

\* The machine during one VI handler: the device state plus the calls made.
ViEnter ==
  [vi_reg |-> vi_reg, vi |-> vi, vbl |-> vbl, mi_intr |-> mi_intr,
   nCause |-> 0,          \* calls of n64js.cpu0.updateCause3()
   nPresent |-> 0,        \* calls of presentBackBuffer()
   presentArg |-> {},     \* the origin handed to presentBackBuffer()
   nYield |-> 0,          \* calls of n64js.returnControlToSystem()
   nSched |-> 0,          \* calls of n64js.cpu0.addVblEvent()
   schedArg |-> 0,        \* the cycle count handed to addVblEvent()
   nSyncLog |-> 0,        \* timing recomputations logged by the V_SYNC case
   threw |-> FALSE]

\* n64js.cpu0.hasVblEvent() and addVblEvent(): the event queue of the CPU
\* holds at most the one vblank event the device asks for.
hasVblEvent(m) == m.vbl.pending

addVblEvent(m, count) ==
  [m EXCEPT !.vbl = [pending |-> TRUE, count |-> count],
            !.nSched = @ + 1,
            !.schedArg = count]

\* Mutant: the field toggles on every vertical blank.
verticalBlank_alwaysToggle(m) ==
  LET m1 == [m EXCEPT !.vi.curVbl = @ + 1,
                      !.vi.field = (@ + 1) % 2]
      m2 == addVblEvent(m1, m1.vi.countPerVbl)
  IN [m2 EXCEPT !.mi_intr = @ \cup MI_INTR_VI, !.nCause = @ + 1]

\* Mutant: the vertical blank does not schedule the next one.
verticalBlank_once(m) ==
  LET control == readU32(m.vi_reg, VI_CONTROL_REG)
      interlaced == IF control \cap VI_CTRL_SERRATE_ON # {} THEN 1 ELSE 0
      m1 == [m EXCEPT !.vi.curVbl = @ + 1,
                      !.vi.field = (@ + interlaced) % 2]
  IN [m1 EXCEPT !.mi_intr = @ \cup MI_INTR_VI, !.nCause = @ + 1]

verticalBlank(m) ==
  LET control == readU32(m.vi_reg, VI_CONTROL_REG)
      interlaced == IF control \cap VI_CTRL_SERRATE_ON # {} THEN 1 ELSE 0
      m1 == [m EXCEPT !.vi.curVbl = @ + 1,
                      !.vi.field = (@ + interlaced) % 2]
      m2 == addVblEvent(m1, m1.vi.countPerVbl)
  IN [m2 EXCEPT !.mi_intr = @ \cup MI_INTR_VI, !.nCause = @ + 1]

\* Mutant: a pending event does not stop the scheduling.
initInterrupt_ignoresPending(m) ==
  LET intr == readU32(m.vi_reg, VI_V_INTR_REG)
      sync == readU32(m.vi_reg, VI_V_SYNC_REG)
  IN IF ~ULt(intr, sync) THEN m
     ELSE addVblEvent(m, m.vi.countPerVbl)

initInterrupt(m) ==
  IF hasVblEvent(m) THEN m
  ELSE LET intr == readU32(m.vi_reg, VI_V_INTR_REG)
           sync == readU32(m.vi_reg, VI_V_SYNC_REG)
       IN IF ~ULt(intr, sync) THEN m
          ELSE addVblEvent(m, m.vi.countPerVbl)

\* Mutant: every ORIGIN write presents the back buffer.
viWriteOrigin_always(m, ea, value) ==
  LET m1 == [m EXCEPT !.nPresent = @ + 1, !.presentArg = value,
                      !.nYield = @ + 1,
                      !.vi.lastVbl = m.vi.curVbl]
  IN [m1 EXCEPT !.vi_reg = write32(@, ea, value)]

\* The ORIGIN case of write32.
viWriteOrigin(m, ea, value) ==
  LET lastOrigin == readU32(m.vi_reg, ea)
      newOrigin == value
      m1 == IF newOrigin # lastOrigin
              THEN [m EXCEPT !.nPresent = @ + 1, !.presentArg = newOrigin,
                             !.nYield = @ + 1,
                             !.vi.lastVbl = m.vi.curVbl]
            ELSE m
  IN [m1 EXCEPT !.vi_reg = write32(@, ea, value)]

\* The number write32 is handed is the word read as unsigned, or, when
\* signed, as a two's complement number: below 0 when bit 31 is set, and
\* then -(k + 1) for k the number of the inverted low 31 bits.
Negative(value, signed) == signed /\ 31 \in value

\* ((clock / refreshRate) / scanlines) >> 0 for scanlines = value + 1.  With
\* scanlines above every clock / refreshRate in size (a bit from 20 upwards
\* set in it) the quotient truncates to 0; a negative value gives the
\* negative scanlines -k and a quotient truncated towards zero.
CountPerScanline(d, value, signed) ==
  IF Negative(value, signed)
    THEN LET inv == (0..30) \ value
         IN IF inv \cap (20..30) # {} THEN 0
            ELSE TruncDiv(d.clock, d.refreshRate * (-ToNat(inv)))
  ELSE IF value \cap (20..31) # {} THEN 0
  ELSE TruncDiv(d.clock, d.refreshRate * (ToNat(value) + 1))

\* scanlines * countPerScanline, which is 0 whenever countPerScanline is.
CountPerVbl(value, signed, countPerScanline) ==
  IF countPerScanline = 0 THEN 0
  ELSE IF Negative(value, signed)
    THEN (-ToNat((0..30) \ value)) * countPerScanline
  ELSE (ToNat(value) + 1) * countPerScanline

\* Mutant: a new V_SYNC schedules an event under the new timing at once.
viWriteVSync_reschedules(m, ea, value, signed) ==
  LET lastSync == readU32(m.vi_reg, ea)
  IN IF Negative(value, signed) \/ lastSync # value
       THEN LET countPerScanline == CountPerScanline(m.vi, value, signed)
                m1 == [m EXCEPT !.vi.countPerScanline = countPerScanline,
                                !.vi.countPerVbl = CountPerVbl(value, signed, countPerScanline),
                                !.nSyncLog = @ + 1,
                                !.vi_reg = write32(@, ea, value)]
            IN addVblEvent(m1, m1.vi.countPerVbl)
     ELSE m

\* The V_SYNC case of write32.  lastSync is read unsigned and compared with
\* the number handed in, so a negative value differs from every stored one.
viWriteVSync(m, ea, value, signed) ==
  LET lastSync == readU32(m.vi_reg, ea)
  IN IF Negative(value, signed) \/ lastSync # value
       THEN LET countPerScanline == CountPerScanline(m.vi, value, signed)
                m1 == [m EXCEPT !.vi.countPerScanline = countPerScanline,
                                !.vi.countPerVbl = CountPerVbl(value, signed, countPerScanline),
                                !.nSyncLog = @ + 1,
                                !.vi_reg = write32(@, ea, value)]
            IN initInterrupt(m1)
     ELSE m

\* Mutant: the interrupt is acknowledged only when it is raised.
viWriteCurrent_onlyWhenRaised(m, ea, value) ==
  IF MI_INTR_VI \subseteq m.mi_intr
    THEN [m EXCEPT !.mi_intr = @ \ MI_INTR_VI, !.nCause = @ + 1]
  ELSE m

\* The CURRENT case of write32: mi_reg.clearBits32(MI_INTR_REG, MI_INTR_VI)
\* and updateCause3(); the register memory is not written.
viWriteCurrent(m, ea, value) ==
  [m EXCEPT !.mi_intr = @ \ MI_INTR_VI, !.nCause = @ + 1]

\* Mutant: only the first byte of the access is checked against the length.
viWrite32_checksFirstByte(m, ea, value, signed) ==
  IF ea + 1 > ViRegLength THEN [m EXCEPT !.threw = TRUE]
  ELSE CASE ea = VI_ORIGIN_REG -> viWriteOrigin(m, ea, value)
         [] ea = VI_CONTROL_REG -> [m EXCEPT !.vi_reg = write32(@, ea, value)]
         [] ea = VI_WIDTH_REG -> [m EXCEPT !.vi_reg = write32(@, ea, value)]
         [] ea = VI_INTR_REG ->
              initInterrupt([m EXCEPT !.vi_reg = write32(@, ea, value)])
         [] ea = VI_CURRENT_REG -> viWriteCurrent(m, ea, value)
         [] ea = VI_V_SYNC_REG -> viWriteVSync(m, ea, value, signed)
         [] OTHER -> [m EXCEPT !.vi_reg = write32(@, ea, value)]

\* VIRegDevice.write32 at effective address ea.  value is the word of the
\* number handed in and signed tells whether that number is the word read
\* as signed; only the V_SYNC case works on the number itself, the ORIGIN
\* case converts it with >>> 0 and the others store it or test its bits.
viWrite32(m, ea, value, signed) ==
  IF ea + 4 > ViRegLength THEN [m EXCEPT !.threw = TRUE]
  ELSE CASE ea = VI_ORIGIN_REG -> viWriteOrigin(m, ea, value)
         [] ea = VI_CONTROL_REG -> [m EXCEPT !.vi_reg = write32(@, ea, value)]
         [] ea = VI_WIDTH_REG -> [m EXCEPT !.vi_reg = write32(@, ea, value)]
         [] ea = VI_INTR_REG ->
              initInterrupt([m EXCEPT !.vi_reg = write32(@, ea, value)])
         [] ea = VI_CURRENT_REG -> viWriteCurrent(m, ea, value)
         [] ea = VI_V_SYNC_REG -> viWriteVSync(m, ea, value, signed)
         [] OTHER -> [m EXCEPT !.vi_reg = write32(@, ea, value)]

\* The value a read of CURRENT computes; cyclesToNextVbl is what
\* n64js.cpu0.getVblCount() returned.
viCurrent(m, cyclesToNextVbl) ==
  LET countExecuted == m.vi.countPerVbl - cyclesToNextVbl
      scanline == TruncDiv(countExecuted, m.vi.countPerScanline)
      sync == readU32(m.vi_reg, VI_V_SYNC_REG)
      wrapped == IF 31 \notin sync /\ scanline >= ToNat(sync)
                   THEN scanline - ToNat(sync)
                 ELSE scanline
  IN (FromInt(wrapped) \ {0}) \cup FromNat(m.vi.field)

\* VIRegDevice.readS32 at effective address ea: <<word returned, machine>>.
viReadS32(m, ea, cyclesToNextVbl) ==
  IF ea + 4 > ViRegLength THEN <<{}, [m EXCEPT !.threw = TRUE]>>
  ELSE LET m1 == IF ea = VI_CURRENT_REG
                   THEN [m EXCEPT !.vi_reg = write32(@, ea, viCurrent(m, cyclesToNextVbl))]
                 ELSE m
       IN <<readS32(m1.vi_reg, ea), m1>>

\* VIRegDevice.readU32: the word of readS32, read as unsigned.
viReadU32(m, ea, cyclesToNextVbl) == viReadS32(m, ea, cyclesToNextVbl)

\* ---------------------------------------------------------------------------
\* ram.js: MappedMemDevice and InvalidMemDevice
\* ---------------------------------------------------------------------------

\* The masks applied to the translated address.
physMask == 0..22          \* 0x007fffff
physMask32 == 2..22        \* 0x007ffffc
physMask64 == 3..22        \* 0x007ffff8

\* The machine during one memory-device access: RDRAM plus the calls made.
MemEnter ==
  [ram |-> ram,
   nHalt |-> 0,           \* calls of n64js.halt()
   nLog |-> 0,            \* calls of logger.log()
   accessed |-> FALSE,    \* whether an accessor of hardware.ram was called
   off |-> {},            \* the offset handed to that accessor, as a word
   ret |-> {},            \* the value returned, as a word
   threw |-> FALSE]

mappedHalt(m) == [m EXCEPT !.nHalt = @ + 1]

\* Whether the n bytes at the offset off (a word) lie inside RDRAM.
InRam(off, n) ==
  IF off \cap (23..31) # {} THEN FALSE ELSE ToNat(off) + n <= RamLength

\* An accessor of hardware.ram reading n bytes at off.  The owning device
\* is to hand it offsets inside the buffer; outside of it the accessor
\* either throws or yields a value that is not a number.
ramRead(m, off, n, signed, oobThrows) ==
  LET m1 == [m EXCEPT !.accessed = TRUE, !.off = off]
  IN IF InRam(off, n)
       THEN [m1 EXCEPT !.ret = IF signed
                                 THEN SignExtend(getU(m.ram, ToNat(off), n), n)
                               ELSE getU(m.ram, ToNat(off), n)]
     ELSE [m1 EXCEPT !.threw = oobThrows]

\* An accessor of hardware.ram writing the bits of value selected by mask
\* into the n bytes at off.  Outside of the buffer it either throws and
\* writes nothing or writes the bytes that are inside.
ramWrite(m, off, n, value, mask, oobThrows) ==
  LET m1 == [m EXCEPT !.accessed = TRUE, !.off = off]
      ea == ToNat(off)
      new == (getU(m.ram, ea, n) \ mask) \cup (value \cap mask)
  IN IF InRam(off, n)
       THEN [m1 EXCEPT !.ram = setN(@, ea, n, new)]
     ELSE IF oobThrows THEN [m1 EXCEPT !.threw = TRUE]
     ELSE [m1 EXCEPT !.ram = setN(@, ea, n, new) \cap (0..(8 * RamLength - 1))]

\* MappedMemDevice: t is what the address translator of the CPU returned
\* for the address.
readInternal32(m, t) ==
  LET mapped == t \cap physMask
  IN IF mapped # {} /\ ToNat(mapped) + 4 <= RamLength
       THEN ramRead(m, mapped, 4, FALSE, FALSE)
     ELSE m

writeInternal32(m, t, value) ==
  LET mapped == t \cap physMask
  IN IF mapped # {} /\ ToNat(mapped) + 4 <= RamLength
       THEN ramWrite(m, mapped, 4, value, 0..31, FALSE)
     ELSE m

mappedReadU32(m, t, oobThrows) ==
  LET mapped == t \cap physMask
  IN IF mapped # {} THEN ramRead(m, mapped, 4, FALSE, oobThrows)
     ELSE mappedHalt(m)

mappedReadU16(m, t, oobThrows) ==
  LET mapped == t \cap physMask
  IN IF mapped # {} THEN ramRead(m, mapped, 2, FALSE, oobThrows)
     ELSE mappedHalt(m)

mappedReadU8(m, t, oobThrows) ==
  LET mapped == t \cap physMask
  IN IF mapped # {} THEN ramRead(m, mapped, 1, FALSE, oobThrows)
     ELSE mappedHalt(m)

mappedReadS32(m, t, oobThrows) ==
  LET mapped == t \cap physMask
  IN IF mapped # {} THEN ramRead(m, mapped, 4, TRUE, oobThrows)
     ELSE mappedHalt(m)

mappedReadS16(m, t, oobThrows) ==
  LET mapped == t \cap physMask
  IN IF mapped # {} THEN ramRead(m, mapped, 2, TRUE, oobThrows)
     ELSE mappedHalt(m)

\* readS8 uses the translated address as it is.
mappedReadS8(m, t, oobThrows) ==
  LET mapped == t
  IN IF mapped # {} THEN ramRead(m, mapped, 1, TRUE, oobThrows)
     ELSE mappedHalt(m)

mappedWrite64masked(m, t, value, mask, oobThrows) ==
  LET mapped == t \cap physMask64
  IN IF mapped = {} THEN mappedHalt(m)
     ELSE ramWrite(m, mapped, 8, value, mask, oobThrows)

mappedWrite32masked(m, t, value, mask, oobThrows) ==
  LET mapped == t \cap physMask32
  IN IF mapped = {} THEN mappedHalt(m)
     ELSE ramWrite(m, mapped, 4, value, mask, oobThrows)

mappedWrite32(m, t, value, oobThrows) ==
  LET mapped == t \cap physMask
  IN IF mapped # {} THEN ramWrite(m, mapped, 4, value, 0..31, oobThrows)
     ELSE mappedHalt(m)

mappedWrite16(m, t, value, oobThrows) ==
  LET mapped == t \cap physMask
  IN IF mapped # {} THEN ramWrite(m, mapped, 2, value, 0..15, oobThrows)
     ELSE mappedHalt(m)

\* Mutant: a store that faults is dropped without halting.
mappedWrite8_dropsOnFault(m, t, value, oobThrows) ==
  LET mapped == t \cap physMask
  IN IF mapped # {} THEN ramWrite(m, mapped, 1, value, 0..7, oobThrows)
     ELSE m

mappedWrite8(m, t, value, oobThrows) ==
  LET mapped == t \cap physMask
  IN IF mapped # {} THEN ramWrite(m, mapped, 1, value, 0..7, oobThrows)
     ELSE mappedHalt(m)

\* Mutant: a read of the invalid device returns the address.
invalidRead_echo(m, address) ==
  [m EXCEPT !.nLog = @ + 1, !.ret = address]

\* InvalidMemDevice.read and write: log only.
invalidRead(m, address) ==
  [m EXCEPT !.nLog = @ + 1, !.ret = {}]

invalidWrite(m, address) == [m EXCEPT !.nLog = @ + 1]

invalidReadU32(m, address) == invalidRead(m, address)
invalidReadU16(m, address) ==
  [invalidRead(m, address) EXCEPT !.ret = @ \cap (0..15)]
invalidReadU8(m, address) ==
  [invalidRead(m, address) EXCEPT !.ret = @ \cap (0..7)]
invalidReadS32(m, address) == invalidRead(m, address)
invalidReadS16(m, address) ==
  [invalidRead(m, address) EXCEPT !.ret = @ \cap (0..15)]
invalidReadS8(m, address) ==
  [invalidRead(m, address) EXCEPT !.ret = @ \cap (0..7)]
invalidWrite32(m, address, value) == invalidWrite(m, address)
invalidWrite16(m, address, value) == invalidWrite(m, address)
invalidWrite8(m, address, value) == invalidWrite(m, address)

\* ---------------------------------------------------------------------------
\* Actions
\* ---------------------------------------------------------------------------

Record(op, ea, value, m, ret, taskDispatched, hookHalts) ==
  [op |-> op, ea |-> ea, value |-> value,
   status |-> getU32(sp_reg, SP_STATUS_REG),   \* STATUS before the operation
   mi |-> mi_intr,                             \* MI_INTR before the operation
   nCause |-> m.nCause, nDispatch |-> m.nDispatch, nStart |-> m.nStart,
   stored |-> m.stored, dma |-> m.dma, threw |-> m.threw, ret |-> ret,
   taskDispatched |-> taskDispatched, hookHalts |-> hookHalts]

IsDmaReg(ea) == ea = SP_RD_LEN_REG \/ ea = SP_WR_LEN_REG

\* SPRegDevice.write32 at effective address ea.  The counters of the
\* model are left to the specification that uses the action.
SPWrite32(ea, value, taskDispatched, hookHalts) ==
  /\ \E m \in {writeReg32(Enter, ea, value, taskDispatched, hookHalts)} :
        /\ sp_reg' = m.sp_reg
        /\ sp_mem' = m.sp_mem
        /\ ram' = m.ram
        /\ mi_intr' = m.mi_intr
        /\ last' = Record("write32", ea, value, m, {}, taskDispatched, hookHalts)
  /\ semHist' = IF ea = SP_SEMAPHORE_REG THEN "written" ELSE semHist
  /\ UNCHANGED <<probe, sp_ibist, viVars, memVars>>

\* SPRegDevice.readU32 at effective address ea.
SPRead32(ea) ==
  /\ \E r \in {readRegU32(sp_reg, ea)} :
        /\ sp_reg' = r[2]
        /\ last' = Record("read32", ea, {}, [Enter EXCEPT !.threw = r[3]], r[1], FALSE, FALSE)
  /\ semHist' = IF ea # SP_SEMAPHORE_REG \/ semHist = "none" THEN semHist
                ELSE IF semHist = "written" THEN "read once"
                ELSE "read again"
  /\ UNCHANGED <<sp_mem, ram, mi_intr, nDma, nMemWrites, nStatus, probe, sp_ibist, viVars, memVars>>

\* SPRegDevice.halt(), called by the coprocessor when a task ends.
Halt ==
  /\ \E m \in {halt(Enter)} :
        /\ sp_reg' = m.sp_reg
        /\ mi_intr' = m.mi_intr
        /\ last' = Record("halt", 0, {}, m, {}, FALSE, FALSE)
  /\ UNCHANGED <<sp_mem, ram, semHist, nDma, nMemWrites, nStatus, probe, sp_ibist, viVars, memVars>>

\* SPIBISTDevice.write32 at effective address ea.
SPIBISTWrite32(ea, value) ==
  /\ sp_ibist' = ibistWrite32(sp_ibist, ea, value)
  /\ last' = Record("ibist32", ea, value, Enter, {}, FALSE, FALSE)
  /\ UNCHANGED <<sp_reg, sp_mem, ram, mi_intr, semHist, nDma, nMemWrites, nStatus,
                 probe, viVars, memVars>>

\* A guest byte store into SP memory.
SPMemWrite8(offset, value) ==
  /\ sp_mem' = spMemWrite8(sp_mem, offset, value)
  /\ nMemWrites' = nMemWrites + 1
  /\ last' = Record("spmem8", offset, value, Enter, {}, FALSE, FALSE)
  /\ UNCHANGED <<sp_reg, ram, mi_intr, semHist, nDma, nStatus, probe, sp_ibist, viVars, memVars>>

\* A guest halfword store into SP memory.
SPMemWrite16(offset, value) ==
  /\ sp_mem' = spMemWrite16(sp_mem, offset, value)
  /\ nMemWrites' = nMemWrites + 1
  /\ last' = Record("spmem16", offset, value, Enter, {}, FALSE, FALSE)
  /\ UNCHANGED <<sp_reg, ram, mi_intr, semHist, nDma, nStatus, probe, sp_ibist, viVars, memVars>>

\* A guest doubleword store into SP memory.
SPMemWrite64(offset, value) ==
  /\ sp_mem' = spMemWrite64(sp_mem, offset, value)
  /\ nMemWrites' = nMemWrites + 1
  /\ last' = Record("spmem64", offset, value, Enter, {}, FALSE, FALSE)
  /\ UNCHANGED <<sp_reg, ram, mi_intr, semHist, nDma, nStatus, probe, sp_ibist, viVars, memVars>>

\* A guest word store into cached RDRAM.
CachedWrite32(off, value) ==
  /\ nMemWrites < MaxMemWrites
  /\ \E m \in {cachedWrite32(Enter, off, value)} :
        /\ ram' = m.ram
        /\ last' = Record("ram32", off, value, m, {}, FALSE, FALSE)
  /\ nMemWrites' = nMemWrites + 1
  /\ UNCHANGED <<sp_reg, sp_mem, mi_intr, semHist, nDma, nStatus, probe, sp_ibist, viVars, memVars>>

\* The length-register decode of both copies applied to the register made
\* of the fields skip, count and len.
Decode(skip, count, len) ==
  /\ LET lenReg == Shl(FromNat(skip), 20) \cup Shl(FromNat(count), 12) \cup FromNat(len)
     IN probe' = [skip |-> skip, count |-> count, len |-> len,
                  rdLen |-> rdLen(lenReg), rdCount |-> rdCount(lenReg), rdSkip |-> rdSkip(lenReg),
                  wrLen |-> wrLen(lenReg), wrCount |-> wrCount(lenReg), wrSkip |-> wrSkip(lenReg)]
  /\ UNCHANGED <<sp_reg, sp_mem, ram, mi_intr, semHist, nDma, nMemWrites, nStatus, last, sp_ibist, viVars, memVars>>

\* What one VI operation was given, returned and called.
ViRecord(op, ea, value, signed, cyclesToNextVbl, ret, m) ==
  [op |-> op, ea |-> ea, value |-> value, signed |-> signed, cycles |-> cyclesToNextVbl, ret |-> ret,
   nCause |-> m.nCause, nPresent |-> m.nPresent, presentArg |-> m.presentArg,
   nYield |-> m.nYield, nSched |-> m.nSched, schedArg |-> m.schedArg,
   nSyncLog |-> m.nSyncLog, threw |-> m.threw]

\* VIRegDevice.write32 at effective address ea.
VIWrite32(ea, value, signed) ==
  /\ nVi < MaxVi
  /\ \E m \in {viWrite32(ViEnter, ea, value, signed)} :
        /\ vi_reg' = m.vi_reg
        /\ vi' = m.vi
        /\ vbl' = m.vbl
        /\ mi_intr' = m.mi_intr
        /\ viLast' = ViRecord("write32", ea, value, signed, 0, {}, m)
  /\ nVi' = nVi + 1
  /\ UNCHANGED <<nVbl, spVars, memVars>>

\* VIRegDevice.readU32 at effective address ea.  n64js.cpu0.getVblCount()
\* returns the cycles left to the pending vblank event; what it returns
\* without one is up to the CPU.
VIRead32(ea, cyclesToNextVbl) ==
  /\ nVi < MaxVi
  /\ vbl.pending => cyclesToNextVbl = vbl.count
  /\ \E r \in {viReadU32(ViEnter, ea, cyclesToNextVbl)} :
        /\ vi_reg' = r[2].vi_reg
        /\ viLast' = ViRecord("read32", ea, {}, FALSE, cyclesToNextVbl, r[1], r[2])
  /\ nVi' = nVi + 1
  /\ UNCHANGED <<vi, vbl, mi_intr, nVbl, spVars, memVars>>

\* The CPU runs: the cycles left to the pending vblank event go down to c.
Advance(c) ==
  /\ vbl.pending
  /\ c < vbl.count
  /\ vbl' = [vbl EXCEPT !.count = c]
  /\ viLast' = ViRecord("cycles", 0, {}, FALSE, c, {}, ViEnter)
  /\ UNCHANGED <<vi_reg, vi, mi_intr, nVi, nVbl, spVars, memVars>>

\* The pending vblank event fires: the CPU removes it from its queue and
\* calls VIRegDevice.verticalBlank().
VerticalBlank ==
  /\ nVbl < MaxVbl
  /\ vbl.pending
  /\ vbl.count = 0
  /\ \E m \in {verticalBlank([ViEnter EXCEPT !.vbl = [pending |-> FALSE, count |-> 0]])} :
        /\ vi' = m.vi
        /\ vbl' = m.vbl
        /\ mi_intr' = m.mi_intr
        /\ viLast' = ViRecord("vblank", 0, {}, FALSE, 0, {}, m)
  /\ nVbl' = nVbl + 1
  /\ UNCHANGED <<vi_reg, nVi, spVars, memVars>>

\* VIRegDevice.reset().
Reset ==
  /\ vi' = reset(vi)
  /\ viLast' = ViRecord("reset", 0, {}, FALSE, 0, {}, ViEnter)
  /\ UNCHANGED <<vi_reg, vbl, mi_intr, nVi, nVbl, spVars, memVars>>

\* What one memory-device access was given, returned and called.
MemRecord(dev, op, t, value, mask, m) ==
  [dev |-> dev, op |-> op, t |-> t, value |-> value, mask |-> mask,
   ret |-> m.ret, nHalt |-> m.nHalt, nLog |-> m.nLog,
   accessed |-> m.accessed, off |-> m.off, threw |-> m.threw]

\* A guest load through the MappedMemDevice; the translator answers t.
MappedRead(op, t, oobThrows) ==
  /\ \E m \in {CASE op = "readU32" -> mappedReadU32(MemEnter, t, oobThrows)
                 [] op = "readU16" -> mappedReadU16(MemEnter, t, oobThrows)
                 [] op = "readU8" -> mappedReadU8(MemEnter, t, oobThrows)
                 [] op = "readS32" -> mappedReadS32(MemEnter, t, oobThrows)
                 [] op = "readS16" -> mappedReadS16(MemEnter, t, oobThrows)
                 [] op = "readS8" -> mappedReadS8(MemEnter, t, oobThrows)} :
        memLast' = MemRecord("mapped", op, t, {}, {}, m)
  /\ UNCHANGED <<mi_intr, nMem, spVars, viVars>>

\* A guest store through the MappedMemDevice; the translator answers t.
MappedWrite(op, t, value, mask, oobThrows) ==
  /\ \E m \in {CASE op = "write64masked" ->
                      mappedWrite64masked(MemEnter, t, value, mask, oobThrows)
                 [] op = "write32masked" ->
                      mappedWrite32masked(MemEnter, t, value, mask, oobThrows)
                 [] op = "write32" -> mappedWrite32(MemEnter, t, value, oobThrows)
                 [] op = "write16" -> mappedWrite16(MemEnter, t, value, oobThrows)
                 [] op = "write8" -> mappedWrite8(MemEnter, t, value, oobThrows)} :
        /\ ram' = m.ram
        /\ nMem' = IF m.ram # ram THEN nMem + 1 ELSE nMem
        /\ memLast' = MemRecord("mapped", op, t, value, mask, m)
  /\ nMem' <= MaxMem
  /\ UNCHANGED <<sp_reg, sp_mem, mi_intr, semHist, nDma, nMemWrites, nStatus,
                 probe, last, sp_ibist, viVars>>

\* MappedMemDevice.readInternal32.
ProbeRead(t) ==
  /\ \E m \in {readInternal32(MemEnter, t)} :
        memLast' = MemRecord("mapped", "readInternal32", t, {}, {}, m)
  /\ UNCHANGED <<mi_intr, nMem, spVars, viVars>>

\* MappedMemDevice.writeInternal32.
ProbeWrite(t, value) ==
  /\ \E m \in {writeInternal32(MemEnter, t, value)} :
        /\ ram' = m.ram
        /\ nMem' = IF m.ram # ram THEN nMem + 1 ELSE nMem
        /\ memLast' = MemRecord("mapped", "writeInternal32", t, value, {}, m)
  /\ nMem' <= MaxMem
  /\ UNCHANGED <<sp_reg, sp_mem, mi_intr, semHist, nDma, nMemWrites, nStatus,
                 probe, last, sp_ibist, viVars>>

\* A load from the InvalidMemDevice.
InvalidRead(op, address) ==
  /\ \E m \in {CASE op = "readU32" -> invalidReadU32(MemEnter, address)
                 [] op = "readU16" -> invalidReadU16(MemEnter, address)
                 [] op = "readU8" -> invalidReadU8(MemEnter, address)
                 [] op = "readS32" -> invalidReadS32(MemEnter, address)
                 [] op = "readS16" -> invalidReadS16(MemEnter, address)
                 [] op = "readS8" -> invalidReadS8(MemEnter, address)} :
        /\ ram' = m.ram
        /\ memLast' = MemRecord("invalid", op, address, {}, {}, m)
  /\ UNCHANGED <<sp_reg, sp_mem, mi_intr, semHist, nDma, nMemWrites, nStatus,
                 probe, last, sp_ibist, nMem, viVars>>

\* A store to the InvalidMemDevice.
InvalidWrite(op, address, value) ==
  /\ \E m \in {CASE op = "write32" -> invalidWrite32(MemEnter, address, value)
                 [] op = "write16" -> invalidWrite16(MemEnter, address, value)
                 [] op = "write8" -> invalidWrite8(MemEnter, address, value)} :
        /\ ram' = m.ram
        /\ memLast' = MemRecord("invalid", op, address, value, {}, m)
  /\ UNCHANGED <<sp_reg, sp_mem, mi_intr, semHist, nDma, nMemWrites, nStatus,
                 probe, last, sp_ibist, nMem, viVars>>

\* ---------------------------------------------------------------------------
\* Initial state: zero-filled buffers, no interrupt pending
\* ---------------------------------------------------------------------------

\* The SP device after construction.
InitSP ==
  /\ sp_reg = {}
  /\ sp_mem = {}
  /\ sp_ibist = {}
  /\ ram = {}
  /\ mi_intr = {}
  /\ semHist = "none"
  /\ nDma = 0
  /\ nMemWrites = 0
  /\ nStatus = 0
  /\ probe = [skip |-> 0, count |-> 0, len |-> 0,
              rdLen |-> 8, rdCount |-> 1, rdSkip |-> 0,
              wrLen |-> 8, wrCount |-> 1, wrSkip |-> 0]
  /\ last = Record("init", 0, {}, Enter, {}, FALSE, FALSE)

\* The VI device after construction for a ROM of the given TV type, with
\* no vblank event scheduled.
InitVIFor(tvType) ==
  /\ vi_reg = {}
  /\ vi = reset(ViConstructed(tvType))
  /\ vbl = [pending |-> FALSE, count |-> 0]
  /\ nVi = 0
  /\ nVbl = 0
  /\ viLast = ViRecord("init", 0, {}, FALSE, 0, {}, ViEnter)

\* No access through the mapped or the invalid memory device yet.
InitMem ==
  /\ nMem = 0
  /\ memLast = MemRecord("none", "init", {}, {}, {}, MemEnter)

Init == InitSP /\ InitVIFor(OS_TV_NTSC) /\ InitMem

\* ---------------------------------------------------------------------------
\* Inputs
\* ---------------------------------------------------------------------------

\* The word 0xHHHHLLLL of its two 16-bit halves.
Word(hi, lo) == Shl(FromNat(hi), 16) \cup FromNat(lo)

AllOnes == 0..31

RegOffsets == {SP_MEM_ADDR_REG, SP_DRAM_ADDR_REG, SP_RD_LEN_REG, SP_WR_LEN_REG,
               SP_STATUS_REG, SP_DMA_FULL_REG, SP_DMA_BUSY_REG, SP_SEMAPHORE_REG}

\* Register writes of the whole-device specification.
DeviceWrites ==
  {<<SP_MEM_ADDR_REG, Word(0, 4095)>>,            \* 0x00000fff
   <<SP_DRAM_ADDR_REG, Word(65280, 4103)>>,       \* 0xff001007
   <<SP_RD_LEN_REG, Word(0, 7)>>,                 \* len 8, count 1, skip 0
   <<SP_WR_LEN_REG, Word(240, 4111)>>,            \* 0x00f0100f: len 16, count 2
   <<SP_STATUS_REG, SP_SET_HALT>>,
   <<SP_STATUS_REG, SP_CLR_HALT \cup SP_SET_INTR \cup SP_SET_INTR_BREAK \cup SP_SET_SIG0>>,
   <<SP_STATUS_REG, SP_CLR_INTR \cup SP_CLR_BROKE \cup SP_CLR_INTR_BREAK
                    \cup SP_CLR_SIG0 \cup SP_CLR_SIG2>>,
   <<SP_DMA_FULL_REG, AllOnes>>,
   <<SP_DMA_BUSY_REG, AllOnes>>,
   <<SP_SEMAPHORE_REG, AllOnes>>}

\* STATUS command words of the STATUS specification: for every flag its
\* SET bit, its CLR bit and both, and words that mix the bits of several
\* flags.
StatusPairs ==
  {<<SP_CLR_HALT, SP_SET_HALT>>, <<SP_CLR_INTR, SP_SET_INTR>>,
   <<SP_CLR_SSTEP, SP_SET_SSTEP>>, <<SP_CLR_INTR_BREAK, SP_SET_INTR_BREAK>>,
   <<SP_CLR_SIG0, SP_SET_SIG0>>, <<SP_CLR_SIG1, SP_SET_SIG1>>,
   <<SP_CLR_SIG2, SP_SET_SIG2>>, <<SP_CLR_SIG3, SP_SET_SIG3>>,
   <<SP_CLR_SIG4, SP_SET_SIG4>>, <<SP_CLR_SIG5, SP_SET_SIG5>>,
   <<SP_CLR_SIG6, SP_SET_SIG6>>, <<SP_CLR_SIG7, SP_SET_SIG7>>}

AllSetBits == UNION {p[2] : p \in StatusPairs}
AllClrBits == UNION {p[1] : p \in StatusPairs} \cup SP_CLR_BROKE

StatusCmds ==
  UNION {{p[1], p[2], p[1] \cup p[2]} : p \in StatusPairs}
  \cup {{}, SP_CLR_BROKE, AllSetBits, AllClrBits, 0..24, AllOnes,
        AllSetBits \ SP_SET_HALT, AllClrBits \ SP_CLR_HALT,
        SP_CLR_HALT \cup SP_SET_INTR_BREAK \cup SP_CLR_SIG2 \cup SP_SET_SIG7,
        SP_SET_HALT \cup SP_CLR_BROKE \cup SP_SET_SIG0 \cup SP_CLR_SIG0 \cup SP_CLR_SIG7,
        SP_CLR_INTR \cup SP_SET_SSTEP \cup SP_CLR_INTR_BREAK \cup SP_SET_SIG3 \cup SP_CLR_SIG4}

\* Inputs of the DMA specification.
DmaWrites ==
  {<<SP_MEM_ADDR_REG, Word(0, 4095)>>,            \* 0x00000fff
   <<SP_MEM_ADDR_REG, Word(0, 8176)>>,            \* 0x00001ff0
   <<SP_DRAM_ADDR_REG, Word(0, 4096)>>,           \* 0x00001000
   <<SP_DRAM_ADDR_REG, Word(65407, 65527)>>,      \* 0xff7ffff7
   <<SP_RD_LEN_REG, Word(0, 7)>>,                 \* len 8, count 1, skip 0
   <<SP_RD_LEN_REG, Word(240, 4111)>>,            \* 0x00f0100f: len 16, count 2, skip 8
   <<SP_WR_LEN_REG, Word(240, 4111)>>,
   <<SP_WR_LEN_REG, Word(32768, 8192)>>}          \* 0x80002000: len 8, count 3, skip 0x800

RamStores ==
  {<<4096, Word(4386, 13124)>>}                   \* 0x11223344 at 0x1000

SpMemStores ==
  {<<8192 + 4, Word(0, 90)>>}                     \* 0x5a at 0x0004 (wrapped)

\* Fields of the length registers decoded by the decode specification.
DecodeSkips == {0, 1, 7, 8, 2048, 4095}
DecodeCounts == {0, 1, 128, 255}
DecodeLens == {0, 1, 7, 8, 9, 4087, 4088, 4095}

\* The external hooks run only when the command word starts the
\* coprocessor; otherwise their outcome is immaterial.
HookChoices(ea, value) ==
  IF ea = SP_STATUS_REG /\ value \cap SP_CLR_HALT # {} /\ value \cap SP_SET_HALT = {}
    THEN BOOLEAN \X BOOLEAN
  ELSE {<<FALSE, FALSE>>}

\* ---------------------------------------------------------------------------
\* Specifications
\* ---------------------------------------------------------------------------

\* The whole SP register device: every register written and read, halt().
DeviceWrite ==
  \E w \in DeviceWrites : \E h \in HookChoices(w[1], w[2]) :
    /\ IsDmaReg(w[1]) => nDma < MaxDma
    /\ SPWrite32(w[1], w[2], h[1], h[2])
    /\ nDma' = IF IsDmaReg(w[1]) THEN nDma + 1 ELSE nDma
    /\ UNCHANGED <<nMemWrites, nStatus>>

\* Registers read by the whole-device specification.
ReadOffsets == {SP_MEM_ADDR_REG, SP_RD_LEN_REG, SP_STATUS_REG, SP_DMA_BUSY_REG,
                SP_SEMAPHORE_REG}

DeviceRead == \E ea \in ReadOffsets : SPRead32(ea)

Next == DeviceWrite \/ DeviceRead \/ Halt

Spec == Init /\ [][Next]_vars

\* The STATUS register: command words, reads of STATUS, halt().
StatusWrite ==
  \E value \in StatusCmds : \E h \in HookChoices(SP_STATUS_REG, value) :
    /\ nStatus < MaxStatus
    /\ SPWrite32(SP_STATUS_REG, value, h[1], h[2])
    /\ nStatus' = nStatus + 1
    /\ UNCHANGED <<nDma, nMemWrites>>

StatusRead == SPRead32(SP_STATUS_REG)

NextStatus == StatusWrite \/ StatusRead \/ Halt

SpecStatus == Init /\ [][NextStatus]_vars

\* The DMA engine: the address and length registers and the two memories.
DmaWrite ==
  \E w \in DmaWrites :
    /\ IsDmaReg(w[1]) => nDma < MaxDma
    /\ SPWrite32(w[1], w[2], FALSE, FALSE)
    /\ nDma' = IF IsDmaReg(w[1]) THEN nDma + 1 ELSE nDma
    /\ UNCHANGED <<nMemWrites, nStatus>>

RamStore == \E w \in RamStores : CachedWrite32(w[1], w[2])

SpMemStore ==
  \E w \in SpMemStores : nMemWrites < MaxMemWrites /\ SPMemWrite8(w[1], w[2])

NextDma == DmaWrite \/ RamStore \/ SpMemStore

SpecDma == Init /\ [][NextDma]_vars

\* The decode of the length register, on its whole range of fields.
NextDecode ==
  \E skip \in DecodeSkips, count \in DecodeCounts, len \in DecodeLens :
    Decode(skip, count, len)

SpecDecode == Init /\ [][NextDecode]_vars

\* Inputs of the VI specification.
TvTypes == {OS_TV_PAL, OS_TV_NTSC, OS_TV_MPAL}

ViWrites ==
  {<<VI_ORIGIN_REG, Word(16, 0), FALSE>>,         \* 0x00100000
   <<VI_ORIGIN_REG, Word(32800, 0), FALSE>>,      \* 0x80200000
   <<VI_CONTROL_REG, Word(0, 67), FALSE>>,        \* 0x43: 32 bit, serrate on
   <<VI_CONTROL_REG, Word(0, 3), FALSE>>,         \* 0x03: 32 bit, serrate off
   <<VI_INTR_REG, Word(0, 2), FALSE>>,
   <<VI_INTR_REG, Word(0, 1023), FALSE>>,         \* 0x3ff
   <<VI_CURRENT_REG, Word(0, 5), FALSE>>,
   <<VI_CURRENT_REG, {}, FALSE>>,
   <<VI_V_SYNC_REG, Word(0, 524), FALSE>>,
   <<VI_V_SYNC_REG, Word(0, 262), FALSE>>,
   <<VI_V_SYNC_REG, Word(0, 2000), FALSE>>,
   <<VI_V_SYNC_REG, Word(0, 0), FALSE>>,
   <<VI_V_SYNC_REG, Word(16, 0), FALSE>>,         \* 0x00100000
   <<VI_V_SYNC_REG, Word(65535, 65011), TRUE>>,   \* 0xfffffdf3 handed as -525
   <<VI_H_SYNC_REG, AllOnes, FALSE>>}

ViReads == {VI_CURRENT_REG, VI_V_SYNC_REG}

\* Answers of getVblCount() when no vblank event is pending.
IdleCounts == {0, 1000}

\* Cycles left to the vblank event after the CPU has run for a while.
AdvanceTargets == {0, 3085, 400000}

\* The VI register device: register writes and reads, the passing of CPU
\* cycles, the vertical-blank event and reset().
ViWrite == \E w \in ViWrites : VIWrite32(w[1], w[2], w[3])

ViRead ==
  \E ea \in ViReads : \E c \in IdleCounts \cup {vbl.count} : VIRead32(ea, c)

ViAdvance == \E c \in AdvanceTargets : Advance(c)

NextVI == ViWrite \/ ViRead \/ ViAdvance \/ VerticalBlank \/ Reset

InitVI == InitSP /\ InitMem /\ \E tvType \in TvTypes : InitVIFor(tvType)

SpecVI == InitVI /\ [][NextVI]_vars

\* The VI device with a CPU that keeps running: cycles pass and a pending
\* vblank event whose count has run out is fired.
LiveViWrites ==
  {<<VI_CONTROL_REG, Word(0, 67), FALSE>>,
   <<VI_INTR_REG, Word(0, 2), FALSE>>,
   <<VI_INTR_REG, Word(0, 1023), FALSE>>,
   <<VI_CURRENT_REG, {}, FALSE>>,
   <<VI_V_SYNC_REG, Word(0, 524), FALSE>>,
   <<VI_V_SYNC_REG, Word(0, 262), FALSE>>,
   <<VI_V_SYNC_REG, Word(16, 0), FALSE>>,
   <<VI_V_SYNC_REG, Word(65535, 65011), TRUE>>}

LiveViWrite == \E w \in LiveViWrites : VIWrite32(w[1], w[2], w[3])

NextVILive == LiveViWrite \/ ViRead \/ ViAdvance \/ VerticalBlank \/ Reset

SpecVILive ==
  /\ Init
  /\ [][NextVILive]_vars
  /\ WF_vars(ViAdvance)
  /\ WF_vars(VerticalBlank)

\* Inputs of the memory-device specification: what the address translator
\* answers, the loads and the stores.
Translations ==
  {{},                     \* 0: the fault
   FromNat(3),
   FromNat(4096),          \* 0x00001000
   FromNat(8388608),       \* 0x00800000
   FromNat(8392708),       \* 0x00801004
   FromNat(8388606)}       \* 0x007ffffe

MappedReads == {"readU32", "readU16", "readU8", "readS32", "readS16", "readS8"}

MappedStores ==
  {<<"write8", Word(0, 133), {}>>,                       \* 0x85
   <<"write16", Word(0, 32769), {}>>,                    \* 0x8001
   <<"write32", Word(32785, 8755), {}>>,                 \* 0x80112233
   <<"write32masked", Word(43707, 52445), 8..23>>,       \* 0xaabbccdd, 0x00ffff00
   <<"write64masked", 0..63, 8..47>>}

ProbeStores == {Word(4386, 13124)}                       \* 0x11223344

InvalidAddresses == {FromNat(4), Word(32768, 0)}

InvalidStores == {<<"write32", AllOnes>>, <<"write16", Word(0, 65535)>>,
                  <<"write8", Word(0, 255)>>}

\* The RAM device family: guest accesses and probes through the
\* MappedMemDevice, and accesses to the InvalidMemDevice.
MemRead ==
  \E op \in MappedReads : \E t \in Translations : \E oobThrows \in BOOLEAN :
    MappedRead(op, t, oobThrows)

MemWrite ==
  \E w \in MappedStores : \E t \in Translations : \E oobThrows \in BOOLEAN :
    MappedWrite(w[1], t, w[2], w[3], oobThrows)

MemProbeRead == \E t \in Translations : ProbeRead(t)

MemProbeWrite == \E t \in Translations : \E v \in ProbeStores : ProbeWrite(t, v)

MemInvalidRead ==
  \E op \in MappedReads : \E a \in InvalidAddresses : InvalidRead(op, a)

MemInvalidWrite ==
  \E w \in InvalidStores : \E a \in InvalidAddresses : InvalidWrite(w[1], a, w[2])

NextRam == MemRead \/ MemWrite \/ MemProbeRead \/ MemProbeWrite
             \/ MemInvalidRead \/ MemInvalidWrite

SpecRam == Init /\ [][NextRam]_vars

\* Inputs of the range specification: accesses inside the register files
\* that give them contents, and accesses whose effective address plus 4
\* exceeds the length of the register file.
RangeSpWrites ==
  {<<SP_STATUS_REG, SP_SET_INTR \cup SP_SET_SIG0>>,
   <<SP_SEMAPHORE_REG, AllOnes>>,
   <<SP_MEM_ADDR_REG + 2, Word(4660, 22136)>>,    \* 0x12345678 at offset 2
   <<SpRegLength, AllOnes>>,
   <<SpRegLength - 2, AllOnes>>}

RangeSpReads == {SP_SEMAPHORE_REG, SpRegLength, SpRegLength - 3}

RangeViWrites ==
  {<<VI_V_SYNC_REG, Word(0, 524), FALSE>>,
   <<VI_CONTROL_REG, Word(0, 67), FALSE>>,
   <<VI_H_SYNC_REG, Word(4660, 22136), FALSE>>,   \* 0x12345678
   <<ViRegLength, AllOnes, FALSE>>,
   <<ViRegLength - 2, AllOnes, FALSE>>}

RangeIbistWrites ==
  {<<SPIBIST_PC_REG, AllOnes>>,
   <<SPIBIST_PC_REG + 4, Word(4660, 22136)>>}     \* 0x12345678 at offset 4

RangeViReads == {VI_CURRENT_REG, ViRegLength, ViRegLength - 3}

\* The SP, the SP IBIST and the VI register device side by side, with
\* accesses to the registers they dispatch on, to other offsets in range
\* and to offsets out of range.
RangeSpWrite ==
  \E w \in RangeSpWrites : \E h \in HookChoices(w[1], w[2]) :
    /\ SPWrite32(w[1], w[2], h[1], h[2])
    /\ UNCHANGED <<nDma, nMemWrites, nStatus>>

RangeSpRead == \E ea \in RangeSpReads : SPRead32(ea)

RangeIbistWrite == \E w \in RangeIbistWrites : SPIBISTWrite32(w[1], w[2])

RangeViWrite == \E w \in RangeViWrites : VIWrite32(w[1], w[2], w[3])

RangeViRead ==
  \E ea \in RangeViReads : \E c \in IdleCounts \cup {vbl.count} : VIRead32(ea, c)

RangeViAdvance == Advance(0)

NextRange == RangeSpWrite \/ RangeSpRead \/ RangeIbistWrite \/ RangeViWrite
               \/ RangeViRead \/ RangeViAdvance \/ VerticalBlank

SpecRange == Init /\ [][NextRange]_vars

\* Inputs of the SP memory specification: offsets from the start of the
\* device's range, in and beyond the 0x2000 bytes of SP memory, and values
\* wider than the store.
SpMemOffsets == {0, 1, 2, 3, 8192 + 4, 16384 + 7, 8190}

SpMemValues == {Word(4660, 22136), Word(0, 33189)}     \* 0x12345678, 0x000081a5

SpMemValues64 ==
  {{b + 32 : b \in Word(4386, 13124)} \cup Word(21862, 30600),   \* 0x1122334455667788
   0..31}                                                        \* 0x00000000ffffffff

\* SP memory under guest stores of 8, 16 and 64 bits, next to cached
\* stores into RDRAM.
SpStore8 ==
  \E o \in SpMemOffsets : \E v \in SpMemValues :
    nMemWrites < MaxSpStores /\ SPMemWrite8(o, v)

SpStore16 ==
  \E o \in SpMemOffsets : \E v \in SpMemValues :
    nMemWrites < MaxSpStores /\ SPMemWrite16(o, v)

SpStore64 ==
  \E o \in {0, 8192 + 8, 8188} : \E v \in SpMemValues64 :
    nMemWrites < MaxSpStores /\ SPMemWrite64(o, v)

\* Cached stores into RDRAM: the last word, and across and past its end.
CachedStoreOffsets == {RamLength - 4, RamLength - 2, RamLength}

CachedStore ==
  \E off \in CachedStoreOffsets : \E v \in SpMemValues : CachedWrite32(off, v)

NextSpMem == SpStore8 \/ SpStore16 \/ SpStore64 \/ CachedStore

SpecSpMem == Init /\ [][NextSpMem]_vars

\* ---------------------------------------------------------------------------
\* Properties
\* ---------------------------------------------------------------------------

\* The value a guest read of the register at ea returns.
RegRead(ea) == readRegU32(sp_reg, ea)[1]

\* The last operation was a write32 to the register at ea.
Wrote(ea) == last.op = "write32" /\ last.ea = ea /\ ~last.threw

\* The last operation was a write32 that ran a DMA.
WroteLen == Wrote(SP_RD_LEN_REG) \/ Wrote(SP_WR_LEN_REG)

\* The flags that follow the generic paired rule: <<CLR bit, SET bit, flag>>.
PairedFlags ==
  {<<5, 6, 5>>, <<7, 8, 6>>} \cup {<<9 + 2 * k, 10 + 2 * k, 7 + k>> : k \in 0..7}

\* C1: in every STATUS write, each of SSTEP, INTR_BREAK and SIG0..SIG7 is 1
\* afterwards when only its SET bit is in the command word, 0 when only its
\* CLR bit is, and keeps its prior value when both or neither are, whatever
\* the bits of the other flags.  The flag is the one spUpdateStatus stores,
\* which is also the flag in STATUS when the write returns unless the
\* started coprocessor halted meanwhile.
C1_PairedFlagLaw ==
  Wrote(SP_STATUS_REG) =>
    \A f \in PairedFlags :
      LET clr == f[1] \in last.value
          set == f[2] \in last.value
          expected == IF set /\ ~clr THEN TRUE
                      ELSE IF clr /\ ~set THEN FALSE
                      ELSE f[3] \in last.status
      IN /\ (f[3] \in last.stored) = expected
         /\ ~last.hookHalts => ((f[3] \in RegRead(SP_STATUS_REG)) = expected)

\* C1 witness: SIG0 was set and a command word with both SET_SIG0 and
\* CLR_SIG0, and bits of other flags, has left it set.
C1_Witness ==
  /\ Wrote(SP_STATUS_REG)
  /\ {9, 10} \subseteq last.value
  /\ last.value \cap {1, 7} # {}
  /\ 7 \in last.status
  /\ 7 \in RegRead(SP_STATUS_REG)


\* The fields of a length-register word.
SkipField(w) == Shr(w \cap (20..31), 20)
CountField(w) == Shr(w \cap (12..19), 12)
LenField(w) == w \cap (0..11)

LenRegs == {SP_RD_LEN_REG, SP_WR_LEN_REG}

\* C2: after a write32 to RD_LEN or WR_LEN, RD_LEN and WR_LEN both read
\* count = 0 and len = 0xff8, whatever was written and whatever they held.
C2_LenReset ==
  WroteLen =>
    \A ea \in LenRegs :
      /\ CountField(RegRead(ea)) = {}
      /\ LenField(RegRead(ea)) = FromNat(4088)

\* C2 witness: the second DMA, started by a WR_LEN write with a non-zero
\* count field, after a first one started through RD_LEN.
C2_Witness ==
  /\ Wrote(SP_WR_LEN_REG)
  /\ CountField(last.value) # {}
  /\ nDma = 2
  /\ SkipField(RegRead(SP_RD_LEN_REG)) # SkipField(RegRead(SP_WR_LEN_REG))

\* C3 as stated: after a DMA started by writing v to a length register,
\* the skip field read back from the length registers is the skip field of v.
C3_SkipOfWrittenValue ==
  WroteLen =>
    \A ea \in LenRegs : SkipField(RegRead(ea)) = SkipField(last.value)

\* C3 amended: after a DMA started by writing v to a length register, the
\* skip field of the written register is the skip field of v & 0xff8ffff8
\* (the skip of v with its three low bits cleared), and the skip field of
\* the other length register is the one it had before the write.
C3_SkipMaskedAndKept ==
  [][WroteLen' =>
       LET ea == last'.ea
           other == IF ea = SP_RD_LEN_REG THEN SP_WR_LEN_REG ELSE SP_RD_LEN_REG
       IN /\ SkipField(getU32(sp_reg', ea)) = SkipField(last'.value) \ {0, 1, 2}
          /\ SkipField(getU32(sp_reg', other)) = SkipField(getU32(sp_reg, other))]_vars

\* C3 witness: 0x00f0100f, whose skip field 0xf has its low bits set, was
\* written to RD_LEN while WR_LEN held another skip.
C3_Witness ==
  /\ Wrote(SP_RD_LEN_REG)
  /\ last.value = Word(240, 4111)
  /\ SkipField(RegRead(SP_RD_LEN_REG)) = {3}
  /\ SkipField(RegRead(SP_WR_LEN_REG)) = {11}

\* The SP address, its bank and the DRAM address a DMA starts from, in the
\* state before the length-register write.
DmaSp == ToNat(getU32(sp_reg, SP_MEM_ADDR_REG) \cap (0..12))
DmaBank == 4096 * (DmaSp \div 4096)
DmaDram == ToNat(getU32(sp_reg, SP_DRAM_ADDR_REG) \cap (0..23))

\* C4: repetition r of a DMA transfers byte i between DRAM offset
\* dram + r*(len+skip) + i and SP offset bank | ((sp + r*len + i) & 0xfff);
\* when count*len <= 0x1000 every destination byte is afterwards the source
\* byte before the transfer, DRAM to SP for RD_LEN and SP to DRAM for
\* WR_LEN (for the DRAM offsets that lie inside RDRAM).
C4_DmaBytes ==
  [][WroteLen' =>
       LET d == last'.dma
       IN d.count * d.len <= 4096 =>
            \A r \in 0..(d.count - 1), i \in 0..(d.len - 1) :
              LET X == DmaDram + r * (d.len + d.skip) + i
                  Y == DmaBank + ((DmaSp + r * d.len + i) % 4096)
              IN X < RamLength =>
                   IF last'.ea = SP_RD_LEN_REG
                     THEN u8get(sp_mem', SpMemLength, Y) = u8get(ram, RamLength, X)
                     ELSE u8get(ram', RamLength, X) = u8get(sp_mem, SpMemLength, Y)]_vars

\* C4 witness: MEM_ADDR = 0, DRAM_ADDR = 0x1000, RD_LEN = 7 has copied the
\* 8 bytes 11 22 33 44 00 00 00 00 from RDRAM 0x1000 to SP memory 0.
C4_Witness ==
  /\ Wrote(SP_RD_LEN_REG)
  /\ last.value = Word(0, 7)
  /\ last.dma.spMemAddr = 0 /\ last.dma.rdRamAddr = 4096
  /\ last.dma.len = 8 /\ last.dma.count = 1
  /\ u8get(sp_mem, SpMemLength, 0) = FromNat(17)
  /\ u8get(sp_mem, SpMemLength, 3) = FromNat(68)
  /\ sp_mem \subseteq 0..31

\* C5 as stated: after any DMA, MEM_ADDR reads bank | ((sp + count*len) &
\* 0xfff) and DRAM_ADDR reads the DRAM address one past the final
\* transferred byte, dram + (count-1)*(len+skip) + len.
C5_AddrOnePastFinal ==
  [][WroteLen' =>
       LET d == last'.dma
       IN /\ getU32(sp_reg', SP_MEM_ADDR_REG)
               = FromNat(DmaBank + ((DmaSp + d.count * d.len) % 4096))
          /\ getU32(sp_reg', SP_DRAM_ADDR_REG)
               = FromNat(DmaDram + (d.count - 1) * (d.len + d.skip) + d.len)]_vars


\* C6: for every length register, made of the fields skip, count and len,
\* both copies decode the per-repetition length ((lenReg & 0xfff) | 7) + 1,
\* a multiple of 8 in 8..4096, the repetition count count + 1 in 1..256,
\* and the skip field unchanged.
C6_Decode ==
  /\ probe.rdLen = 8 * (probe.len \div 8) + 8
  /\ probe.rdLen % 8 = 0 /\ probe.rdLen >= 8 /\ probe.rdLen <= 4096
  /\ probe.rdCount = probe.count + 1 /\ probe.rdCount >= 1 /\ probe.rdCount <= 256
  /\ probe.rdSkip = probe.skip
  /\ probe.wrLen = probe.rdLen
  /\ probe.wrCount = probe.rdCount
  /\ probe.wrSkip = probe.rdSkip

\* C6 witness: the register 0xfffffff is decoded to len 4096, count 256
\* and skip 0xfff.
C6_Witness ==
  /\ probe.len = 4095 /\ probe.count = 255 /\ probe.skip = 4095
  /\ probe.rdLen = 4096 /\ probe.wrCount = 256 /\ probe.wrSkip = 4095

\* C7: in every state between two guest accesses the DMA_BUSY flag of
\* STATUS is clear and the DMA_BUSY register reads 0; when a
\* length-register write returns, its DMA has run and the length registers
\* are already reset.
C7_DmaNeverBusy ==
  /\ RegRead(SP_STATUS_REG) \cap SP_STATUS_DMA_BUSY = {}
  /\ RegRead(SP_DMA_BUSY_REG) = {}
  /\ WroteLen => /\ last.dma.ran # "none"
                 /\ \A ea \in LenRegs : LenField(RegRead(ea)) = FromNat(4088)

\* C7 witness: a second DMA has just returned, on a device whose STATUS
\* was written before.
C7_Witness ==
  /\ WroteLen
  /\ nDma = 2
  /\ RegRead(SP_STATUS_REG) # {}

\* C8: a write32 to SEMAPHORE makes the next read return 0; a read returns
\* the value held before it and leaves the register at 1, so the first
\* read after a write returns 0 and every later one 1; no access to
\* another register and no halt() changes the register.
C8_Semaphore ==
  [][/\ Wrote(SP_SEMAPHORE_REG)' => readRegU32(sp_reg', SP_SEMAPHORE_REG)[1] = {}
     /\ (last'.op = "read32" /\ last'.ea = SP_SEMAPHORE_REG) =>
          /\ last'.ret = getU32(sp_reg, SP_SEMAPHORE_REG)
          /\ getU32(sp_reg', SP_SEMAPHORE_REG) = {0}
          /\ semHist = "written" => last'.ret = {}
          /\ semHist \in {"read once", "read again"} => last'.ret = {0}
     /\ last'.ea # SP_SEMAPHORE_REG \/ last'.op \notin {"read32", "write32"} =>
          getU32(sp_reg', SP_SEMAPHORE_REG) = getU32(sp_reg, SP_SEMAPHORE_REG)]_vars

\* C8 witness: the third read of SEMAPHORE since its last write has
\* returned 1.
C8_Witness ==
  /\ last.op = "read32" /\ last.ea = SP_SEMAPHORE_REG
  /\ semHist = "read again"
  /\ last.ret = {0}
  /\ RegRead(SP_SEMAPHORE_REG) = {0}

\* C9: in a STATUS write, SET_HALT alone sets HALT and calls no start
\* hook; CLR_HALT alone clears HALT and calls hleProcessRSPTask() once,
\* and startExecution() once exactly when that returned false; with both
\* or neither bit HALT is unchanged and no hook is called.  HALT is the
\* flag spUpdateStatus stores, and the flag in STATUS when the write
\* returns unless the started coprocessor halted meanwhile.
C9_Halt ==
  Wrote(SP_STATUS_REG) =>
    LET set == 1 \in last.value
        clr == 0 \in last.value
        was == 0 \in last.status
        stored == 0 \in last.stored
        now == 0 \in RegRead(SP_STATUS_REG)
    IN IF set /\ ~clr
         THEN stored /\ now /\ last.nDispatch = 0 /\ last.nStart = 0
       ELSE IF clr /\ ~set
         THEN /\ ~stored
              /\ ~last.hookHalts => ~now
              /\ last.nDispatch = 1
              /\ last.nStart = IF last.taskDispatched THEN 0 ELSE 1
       ELSE (stored = was) /\ (now = was) /\ last.nDispatch = 0 /\ last.nStart = 0

\* C9 witness: CLR_HALT alone has cleared a set HALT flag, the task
\* dispatch returned false and startExecution() ran.
C9_Witness ==
  /\ Wrote(SP_STATUS_REG)
  /\ last.value \cap {0, 1} = {0}
  /\ 0 \in last.status
  /\ 0 \notin RegRead(SP_STATUS_REG)
  /\ ~last.taskDispatched /\ ~last.hookHalts
  /\ last.nDispatch = 1 /\ last.nStart = 1

\* The STATUS flags a command word can change: HALT, BROKE and the paired
\* flags whose bits it contains.
Governed(value) ==
  {b \in {0} : value \cap {0, 1} # {}} \cup {b \in {1} : 2 \in value}
  \cup {f[3] : f \in {g \in PairedFlags : value \cap {g[1], g[2]} # {}}}

\* C10: in a STATUS write, SET_INTR alone sets the SP bit of MI_INTR and
\* CLR_INTR alone clears it, each with one updateCause3(); without an INTR
\* bit the SP bit of MI_INTR is unchanged and updateCause3() is not called;
\* the INTR bits change no bit of STATUS.  (The SP interrupt a halt() of
\* the started coprocessor raises with INTR_BREAK is counted apart.)
C10_Intr ==
  Wrote(SP_STATUS_REG) =>
    LET set == 4 \in last.value
        clr == 3 \in last.value
        raised == last.hookHalts /\ 6 \in RegRead(SP_STATUS_REG)
        byHalt == IF raised THEN 1 ELSE 0
        diff == (last.stored \ last.status) \cup (last.status \ last.stored)
    IN /\ (set /\ ~clr) => (0 \in mi_intr /\ last.nCause = 1 + byHalt)
       /\ (clr /\ ~set) => ((0 \in mi_intr) = raised /\ last.nCause = 1 + byHalt)
       /\ (~set /\ ~clr) => /\ ~raised => ((0 \in mi_intr) = (0 \in last.mi))
                            /\ last.nCause = byHalt
       /\ diff \subseteq Governed(last.value)
       /\ ~last.hookHalts => RegRead(SP_STATUS_REG) = last.stored
       /\ mi_intr \ MI_INTR_SP = last.mi \ MI_INTR_SP

\* C10 witness: CLR_INTR alone, in a command word with bits of other
\* flags, has cleared a pending SP interrupt with one updateCause3().
C10_Witness ==
  /\ Wrote(SP_STATUS_REG)
  /\ last.value \cap {3, 4} = {3}
  /\ last.value # {3}
  /\ 0 \in last.mi
  /\ 0 \notin mi_intr
  /\ last.nCause = 1

\* C11: in every STATUS write whose command word contains CLR_BROKE, the
\* BROKE flag spUpdateStatus stores is 0 whatever the other bits of the
\* word, and, when the start hooks do nothing, so is the flag in STATUS
\* when the write returns; and no STATUS write whose hooks do nothing
\* changes BROKE from 0 to 1.
C11_BrokeOnlyCleared ==
  Wrote(SP_STATUS_REG) =>
    /\ 2 \in last.value =>
         /\ 1 \notin last.stored
         /\ ~last.hookHalts => 1 \notin RegRead(SP_STATUS_REG)
    /\ 1 \notin last.status =>
         /\ 1 \notin last.stored
         /\ ~last.hookHalts => 1 \notin RegRead(SP_STATUS_REG)

\* C11 witness: BROKE was set by a halt() and a command word with
\* CLR_BROKE, SET_HALT and bits of other flags has cleared it.
C11_Witness ==
  /\ Wrote(SP_STATUS_REG)
  /\ {1, 2} \subseteq last.value
  /\ last.value \cap (5..24) # {}
  /\ 1 \in last.status
  /\ 1 \notin RegRead(SP_STATUS_REG)

\* C12: halt() sets HALT, BROKE and SIG2 in STATUS and leaves every other
\* bit of STATUS as it was; it raises the SP interrupt (the SP bit of
\* MI_INTR and one updateCause3()) exactly when INTR_BREAK is set in STATUS
\* at the call, and otherwise leaves the interrupt controller alone.
C12_HaltCall ==
  last.op = "halt" =>
    /\ RegRead(SP_STATUS_REG) = last.status \cup {0, 1, 9}
    /\ IF 6 \in last.status
         THEN mi_intr = last.mi \cup MI_INTR_SP /\ last.nCause = 1
         ELSE mi_intr = last.mi /\ last.nCause = 0

\* C12 witness: halt() on a running device with INTR_BREAK and SIG0 set and
\* no SP interrupt pending has raised the interrupt.
C12_Witness ==
  /\ last.op = "halt"
  /\ last.status \cap {0, 1, 9} = {}
  /\ {6, 7} \subseteq last.status
  /\ 0 \notin last.mi
  /\ 0 \in mi_intr
  /\ RegRead(SP_STATUS_REG) = last.status \cup {0, 1, 9}

\* C13: after any sequence of aligned register writes, reads and DMAs the
\* bits that are not writable read as zero: MEM_ADDR & 7 = 0, DRAM_ADDR & 7
\* = 0, RD_LEN & ~0xff8ffff8 = 0 and WR_LEN & ~0xff8ffff8 = 0.
C13_UnwritableBitsZero ==
  /\ RegRead(SP_MEM_ADDR_REG) \cap {0, 1, 2} = {}
  /\ RegRead(SP_DRAM_ADDR_REG) \cap {0, 1, 2} = {}
  /\ RegRead(SP_RD_LEN_REG) \cap {0, 1, 2, 20, 21, 22} = {}
  /\ RegRead(SP_WR_LEN_REG) \cap {0, 1, 2, 20, 21, 22} = {}

\* C13 witness: MEM_ADDR and DRAM_ADDR were written with their low bits
\* set and a DMA started by WR_LEN = 0x00f0100f has updated all four
\* registers, which are all non-zero.
C13_Witness ==
  /\ Wrote(SP_WR_LEN_REG)
  /\ last.value = Word(240, 4111)
  /\ last.dma.spMemAddr = 4088 /\ last.dma.rdRamAddr = 4096
  /\ RegRead(SP_MEM_ADDR_REG) # {}
  /\ RegRead(SP_DRAM_ADDR_REG) # {}
  /\ SkipField(RegRead(SP_WR_LEN_REG)) = {3}
  /\ LenField(RegRead(SP_RD_LEN_REG)) = FromNat(4088)

\* The bits of SP memory outside the 4 KiB bank that starts at bank.
OtherBank(bank) == (0..(8 * SpMemLength - 1)) \ ((8 * bank)..(8 * bank + 32767))

\* C14: a DMA addresses SP memory only inside the 4 KiB bank selected by
\* bit 0x1000 of MEM_ADDR: an RD_LEN DMA leaves every byte of the other
\* bank unchanged, the RDRAM a WR_LEN DMA produces does not depend on the
\* bytes of the other bank, also when the transfer runs past the end of
\* the bank, and MEM_ADDR has the same bank bit after the transfer.
C14_BankConfined ==
  [][WroteLen' =>
       LET other == OtherBank(DmaBank)
       IN /\ (12 \in getU32(sp_reg', SP_MEM_ADDR_REG)) = (12 \in getU32(sp_reg, SP_MEM_ADDR_REG))
          /\ last'.dma.bankBit = DmaBank
          /\ sp_mem' \cap other = sp_mem \cap other
          /\ last'.ea = SP_WR_LEN_REG =>
               ram' = writeReg32([Enter EXCEPT !.sp_mem = sp_mem \ other],
                                 SP_WR_LEN_REG, last'.value, FALSE, FALSE).ram]_vars

\* C14 witness: an RD_LEN DMA of 2 x 16 bytes from MEM_ADDR 0x1ff0 has run
\* past the end of the high bank and wrapped to 0x1000, while the low bank
\* held data; MEM_ADDR reads 0x1010.
C14_Witness ==
  /\ Wrote(SP_RD_LEN_REG)
  /\ last.dma.spMemAddr = 8176 /\ last.dma.len = 16 /\ last.dma.count = 2
  /\ sp_mem \cap OtherBank(4096) # {}
  /\ RegRead(SP_MEM_ADDR_REG) = FromNat(4096 + 16)

\* C15: a write32 of v to MEM_ADDR or DRAM_ADDR stores v & 0xfffffff8 in
\* that register and does nothing else: no DMA runs, the other registers,
\* SP memory, RDRAM and the interrupt controller are unchanged and no
\* interrupt or coprocessor hook is called.
C15_AddrLatch ==
  [][(Wrote(SP_MEM_ADDR_REG)' \/ Wrote(SP_DRAM_ADDR_REG)') =>
       /\ sp_reg' = set32(sp_reg, last'.ea, last'.value \cap (3..31))
       /\ getU32(sp_reg', last'.ea) = last'.value \cap (3..31)
       /\ \A ea \in RegOffsets \ {last'.ea} : getU32(sp_reg', ea) = getU32(sp_reg, ea)
       /\ sp_mem' = sp_mem /\ ram' = ram /\ mi_intr' = mi_intr
       /\ last'.dma.ran = "none"
       /\ last'.nCause = 0 /\ last'.nDispatch = 0 /\ last'.nStart = 0]_vars

\* C15 witness: 0xff001007 was written to DRAM_ADDR, which reads
\* 0xff001000, on a device that has run a DMA and whose STATUS is not zero.
C15_Witness ==
  /\ Wrote(SP_DRAM_ADDR_REG)
  /\ last.value = Word(65280, 4103)
  /\ RegRead(SP_DRAM_ADDR_REG) = Word(65280, 4096)
  /\ nDma >= 1
  /\ last.status # {}

\* C16: a write32 of any value to DMA_FULL or DMA_BUSY changes nothing: the
\* register file, SP memory, RDRAM and the interrupt controller are as
\* before and nothing is called; over any sequence of register accesses
\* both registers keep their power-on value 0.
C16_ReadOnlyRegs ==
  [][/\ (Wrote(SP_DMA_FULL_REG)' \/ Wrote(SP_DMA_BUSY_REG)') =>
          /\ sp_reg' = sp_reg /\ sp_mem' = sp_mem /\ ram' = ram /\ mi_intr' = mi_intr
          /\ last'.dma.ran = "none"
          /\ last'.nCause = 0 /\ last'.nDispatch = 0 /\ last'.nStart = 0
     /\ getU32(sp_reg', SP_DMA_FULL_REG) = {}
     /\ getU32(sp_reg', SP_DMA_BUSY_REG) = {}]_vars

\* C16 witness: 0xffffffff was written to DMA_FULL on a device that has
\* run a DMA, with an SP interrupt pending and a non-zero STATUS; DMA_FULL
\* reads 0.
C16_Witness ==
  /\ Wrote(SP_DMA_FULL_REG)
  /\ last.value = AllOnes
  /\ nDma >= 1
  /\ last.status # {}
  /\ 0 \in mi_intr
  /\ RegRead(SP_DMA_FULL_REG) = {}

\* The last VI operation was a write32 to the register at ea.
VWrote(ea) == viLast.op = "write32" /\ viLast.ea = ea /\ ~viLast.threw

\* The last VI operation was a read of the register at ea.
VRead(ea) == viLast.op = "read32" /\ viLast.ea = ea /\ ~viLast.threw

\* floor(clock / refreshRate / (v + 1)) for the unsigned word v.
FloorPerScanline(v) ==
  IF v \cap (20..31) # {} THEN 0
  ELSE vi.clock \div (vi.refreshRate * (ToNat(v) + 1))

\* floor(clock / refreshRate / (v + 1)) for the number v = -(k + 1) below
\* -1: the divisor is -k, and the floor of the negative quotient is minus
\* the quotient of clock by refreshRate * k rounded up.
FloorPerScanlineBelowZero(k) ==
  IF k >= 2^20 THEN -1
  ELSE -((vi.clock + vi.refreshRate * k - 1) \div (vi.refreshRate * k))

\* C17: a write32 of v to V_SYNC with v different from the stored V_SYNC
\* sets countPerScanline = floor(clock / refreshRate / (v+1)) and
\* countPerVbl = (v+1) * countPerScanline, stores v and then runs the
\* V_INTR scheduling check; a write of the stored value recomputes nothing
\* and changes no timing state, no register and no scheduled event.  v is
\* the number handed to write32: the word as unsigned, or as signed.
C17_VSyncTiming ==
  [][VWrote(VI_V_SYNC_REG)' =>
       LET v == viLast'.value
           below == Negative(v, viLast'.signed)
           k == ToNat((0..30) \ v)
           perScanline == IF below THEN FloorPerScanlineBelowZero(k)
                          ELSE FloorPerScanline(v)
           perVbl == IF perScanline = 0 THEN 0
                     ELSE IF below THEN (-k) * perScanline
                     ELSE (ToNat(v) + 1) * perScanline
       IN IF below \/ v # getU32(vi_reg, VI_V_SYNC_REG)
            THEN /\ vi'.countPerScanline = perScanline
                 /\ vi'.countPerVbl = perVbl
                 /\ vi' = [vi EXCEPT !.countPerScanline = perScanline, !.countPerVbl = perVbl]
                 /\ vi_reg' = set32(vi_reg, VI_V_SYNC_REG, v)
                 /\ viLast'.nSyncLog = 1
                 /\ IF ~vbl.pending /\ ULt(getU32(vi_reg, VI_V_INTR_REG), v)
                      THEN /\ vbl' = [pending |-> TRUE, count |-> perVbl]
                           /\ viLast'.nSched = 1
                      ELSE vbl' = vbl /\ viLast'.nSched = 0
          ELSE /\ vi' = vi /\ vi_reg' = vi_reg /\ vbl' = vbl /\ mi_intr' = mi_intr
               /\ viLast'.nSyncLog = 0 /\ viLast'.nSched = 0]_vars

\* The word ((s >= sync ? s - sync : s) & ~1) | field, for the scanline
\* number s and the unsigned word sync.
CurrentOf(s, sync, field) ==
  (FromInt(IF 31 \notin sync /\ s >= ToNat(sync) THEN s - ToNat(sync) ELSE s) \ {0})
    \cup FromNat(field)

\* floor(a / b) for b other than 0.
FloorDiv(a, b) == IF b > 0 THEN a \div b ELSE (-a) \div (-b)

\* C18: a read of CURRENT returns, and writes back into CURRENT,
\* ((s >= sync ? s - sync : s) & ~1) | field for s = floor((countPerVbl -
\* cyclesRemainingToNextVblEvent) / countPerScanline).
C18_CurrentFloor ==
  [][(VRead(VI_CURRENT_REG)' /\ vi.countPerScanline # 0) =>
       LET s == FloorDiv(vi.countPerVbl - viLast'.cycles, vi.countPerScanline)
           expected == CurrentOf(s, getU32(vi_reg, VI_V_SYNC_REG), vi.field)
       IN /\ viLast'.ret = expected
          /\ getU32(vi_reg', VI_CURRENT_REG) = expected]_vars

\* C19: every ORIGIN write whose value differs from the stored ORIGIN calls
\* presentBackBuffer() once, with the new origin, and
\* returnControlToSystem() once; a write of the stored value calls
\* neither; the register holds the written value after every write.
C19_OriginDedup ==
  [][VWrote(VI_ORIGIN_REG)' =>
       LET differs == viLast'.value # getU32(vi_reg, VI_ORIGIN_REG)
       IN /\ viLast'.nPresent = (IF differs THEN 1 ELSE 0)
          /\ viLast'.nYield = (IF differs THEN 1 ELSE 0)
          /\ differs => viLast'.presentArg = viLast'.value
          /\ getU32(vi_reg', VI_ORIGIN_REG) = viLast'.value
          /\ vi_reg' = set32(vi_reg, VI_ORIGIN_REG, viLast'.value)]_vars

\* C19 witness: 0x80200000 was written to ORIGIN twice in a row from
\* power-on; the second write has presented nothing.
C19_Witness ==
  /\ VWrote(VI_ORIGIN_REG)
  /\ viLast.value = Word(32800, 0)
  /\ nVi = 2
  /\ viLast.nPresent = 0 /\ viLast.nYield = 0
  /\ getU32(vi_reg, VI_ORIGIN_REG) = Word(32800, 0)

\* C20: a write32 to V_INTR stores the value and then schedules a vblank
\* event countPerVbl cycles ahead exactly when no vblank event is pending
\* and the stored V_INTR is below the stored V_SYNC (unsigned); otherwise
\* the scheduler is left as it is.
C20_IntrSchedule ==
  [][VWrote(VI_INTR_REG)' =>
       /\ vi_reg' = set32(vi_reg, VI_INTR_REG, viLast'.value)
       /\ vi' = vi
       /\ IF ~vbl.pending /\ ULt(viLast'.value, getU32(vi_reg, VI_V_SYNC_REG))
            THEN /\ vbl' = [pending |-> TRUE, count |-> vi.countPerVbl]
                 /\ viLast'.nSched = 1
                 /\ viLast'.schedArg = vi.countPerVbl
            ELSE vbl' = vbl /\ viLast'.nSched = 0]_vars

\* C20 witness: V_SYNC = 524 was written while V_INTR = 0x3ff, so nothing
\* was scheduled; the write of V_INTR = 2 has scheduled the vblank event
\* countPerVbl cycles ahead.
C20_Witness ==
  /\ VWrote(VI_INTR_REG)
  /\ viLast.value = FromNat(2)
  /\ getU32(vi_reg, VI_V_SYNC_REG) = FromNat(524)
  /\ viLast.nSched = 1
  /\ viLast.schedArg = vi.countPerVbl
  /\ vi.countPerVbl > 0
  /\ vbl = [pending |-> TRUE, count |-> vi.countPerVbl]

\* The last VI step was the vertical-blank event.
VBlanked == viLast.op = "vblank"

\* C21: each vertical-blank event increments curVbl by exactly 1, toggles
\* field if and only if CONTROL has the serrate bit (0x40) set, schedules the
\* next vblank event countPerVbl cycles ahead, sets the VI bit in the
\* interrupt controller and requests one interrupt-cause recompute.
C21_VerticalBlank ==
  [][VBlanked' =>
       /\ vi'.curVbl = vi.curVbl + 1
       /\ vi'.field = IF 6 \in getU32(vi_reg, VI_CONTROL_REG)
                        THEN 1 - vi.field ELSE vi.field
       /\ vi' = [vi EXCEPT !.curVbl = vi'.curVbl, !.field = vi'.field]
       /\ vbl' = [pending |-> TRUE, count |-> vi.countPerVbl]
       /\ viLast'.nSched = 1
       /\ viLast'.schedArg = vi.countPerVbl
       /\ mi_intr' = mi_intr \cup {3}
       /\ viLast'.nCause = 1
       /\ vi_reg' = vi_reg]_vars

\* C21 witness: the second vertical blank with the serrate bit set has
\* brought field back to 0 and rescheduled the event.
C21_Witness ==
  /\ VBlanked
  /\ 6 \in getU32(vi_reg, VI_CONTROL_REG)
  /\ vi.curVbl = 2
  /\ vi.field = 0
  /\ vi.countPerVbl > 0
  /\ vbl = [pending |-> TRUE, count |-> vi.countPerVbl]
  /\ 3 \in mi_intr

\* C22: a write32 to CURRENT always clears the VI bit in the interrupt
\* controller and requests one CPU interrupt-cause recompute, for every
\* written value and whether or not the VI bit was set; it changes no timing
\* state and schedules no event.
C22_CurrentAcknowledges ==
  [][VWrote(VI_CURRENT_REG)' =>
       /\ mi_intr' = mi_intr \ {3}
       /\ viLast'.nCause = 1
       /\ vi' = vi
       /\ vbl' = vbl
       /\ viLast'.nSched = 0]_vars

\* C22 witness: V_SYNC was written, the scheduled vertical blank has raised
\* the VI bit, and the write of 0 to CURRENT has cleared it.
C22_Witness ==
  /\ VWrote(VI_CURRENT_REG)
  /\ viLast.value = {}
  /\ nVi = 2
  /\ vi.curVbl = 1
  /\ 3 \notin mi_intr
  /\ viLast.nCause = 1
  /\ vbl.pending

\* C23: a write32 of value v to the VI CURRENT register stores v verbatim
\* in the register: the backing register memory at offset 0x10 holds v
\* after the write.
C23_CurrentStored ==
  VWrote(VI_CURRENT_REG) => getU32(vi_reg, VI_CURRENT_REG) = viLast.value

\* C24: the interlace field is always 0 or 1 and changes only during a
\* vertical-blank event that occurs while the CONTROL serrate bit is set: no
\* VI register write (CONTROL included), no VI register read and no reset
\* changes field.
C24_FieldChanges ==
  [][/\ vi'.field \in {0, 1}
     /\ vi'.field # vi.field =>
          /\ VBlanked'
          /\ 6 \in getU32(vi_reg, VI_CONTROL_REG)]_vars

\* C24 witness: field is 1 after a vertical blank with the serrate bit set,
\* and the reset() that followed has left it at 1.
C24_Witness ==
  /\ viLast.op = "reset"
  /\ vi.field = 1
  /\ vi.curVbl = 1
  /\ vi.countPerVbl = 0
  /\ 6 \in getU32(vi_reg, VI_CONTROL_REG)

\* The guest-visible accesses of the MappedMemDevice.
GuestReads == {"readU8", "readU16", "readU32", "readS8", "readS16", "readS32"}
GuestPlainWrites == {"write8", "write16", "write32"}
GuestWrites == GuestPlainWrites \cup {"write32masked", "write64masked"}

\* The last memory-device step was a guest-visible mapped access.
GuestAccess ==
  memLast.dev = "mapped" /\ memLast.op \in GuestReads \cup GuestWrites

\* C25: on a translation fault (the translator returns 0) every
\* guest-visible MappedMemDevice access halts the machine: reads of every
\* width call halt and return 0, writes of every width (the masked ones
\* included) call halt, and RAM is left unchanged.
C25_FaultHalts ==
  [][(GuestAccess' /\ memLast'.t = {}) =>
       /\ memLast'.nHalt = 1
       /\ ~memLast'.accessed
       /\ ~memLast'.threw
       /\ memLast'.ret = {}
       /\ ram' = ram]_vars

\* C25 witness: with bytes stored in RDRAM, a write64masked whose
\* translation faulted has halted and stored nothing.
C25_Witness ==
  /\ memLast.dev = "mapped"
  /\ memLast.op = "write64masked"
  /\ memLast.t = {}
  /\ memLast.nHalt = 1
  /\ nMem = 1
  /\ readU8(ram, 3) = FromNat(133)

\* C26: only the translation result 0 is treated as a fault: whenever the
\* translator returns a non-zero value, a guest-visible MappedMemDevice
\* read or write of any width performs the RAM access and does not halt.
C26_OnlyZeroFaults ==
  (GuestAccess /\ memLast.t # {}) =>
     (memLast.accessed /\ memLast.nHalt = 0)

\* C27: every MappedMemDevice read (U8, U16, U32, S8, S16, S32) and plain
\* write (8, 16, 32) that accesses RAM does so at the offset
\* translate(address) & 0x007fffff.
C27_SameMask ==
  (/\ memLast.dev = "mapped"
   /\ memLast.op \in GuestReads \cup GuestPlainWrites
   /\ memLast.accessed)
    => memLast.off = memLast.t \cap (0..22)

\* Whether a probe with translation t is to do nothing: the translation
\* faulted, or the mapped offset + 4 exceeds the RAM length.
ProbeSkips(t) == t = {} \/ ToNat(t \cap (0..22)) + 4 > RamLength

\* C28: the internal probe accesses never halt and never fail:
\* readInternal32 returns 0 and writeInternal32 changes nothing when the
\* translation faults (result 0) or when the mapped offset + 4 exceeds the
\* RAM length; otherwise readInternal32 returns the 32-bit RAM value at the
\* masked offset without modifying any state and writeInternal32 writes
\* exactly those 4 bytes.
C28_Probes ==
  [][/\ (memLast'.dev = "mapped" /\ memLast'.op = "readInternal32") =>
          /\ memLast'.nHalt = 0 /\ ~memLast'.threw
          /\ ram' = ram
          /\ memLast'.ret = IF ProbeSkips(memLast'.t) THEN {}
                            ELSE getU32(ram, ToNat(memLast'.t \cap (0..22)))
     /\ (memLast'.dev = "mapped" /\ memLast'.op = "writeInternal32") =>
          /\ memLast'.nHalt = 0 /\ ~memLast'.threw
          /\ ram' = IF ProbeSkips(memLast'.t) THEN ram
                    ELSE set32(ram, ToNat(memLast'.t \cap (0..22)), memLast'.value)]_vars

\* C29: accesses to the invalid device are non-fatal: reads of every width
\* return 0 and writes of every width are discarded; no access throws or
\* halts and no device or memory state changes.
C29_InvalidDevice ==
  [][memLast'.dev = "invalid" =>
       /\ memLast'.ret = {}
       /\ memLast'.nHalt = 0
       /\ ~memLast'.threw
       /\ ~memLast'.accessed
       /\ UNCHANGED <<ram, sp_reg, sp_mem, vi_reg, mi_intr, vi, vbl>>]_vars

\* C29 witness: with bytes stored in RDRAM, a readS8 of the invalid device
\* at 0x80000000 has logged and returned 0, and RDRAM still holds the bytes.
C29_Witness ==
  /\ memLast.dev = "invalid"
  /\ memLast.op = "readS8"
  /\ memLast.t = Word(32768, 0)
  /\ memLast.ret = {}
  /\ memLast.nLog = 1
  /\ getU32(ram, 4096) = Word(32785, 8755)

\* The device state an SP or VI register access can touch: the register
\* files, SP memory, RDRAM, the interrupt bits, the fields of the VI device
\* and the scheduled vblank event.
DeviceState == <<sp_reg, sp_mem, sp_ibist, ram, mi_intr, vi_reg, vi, vbl>>

\* C30: a 32-bit SP or VI register access whose effective address plus 4
\* exceeds the length of the register file throws, and throws before any
\* effect: registers, memory, interrupt bits, semaphore state, timing state
\* and scheduled events are unchanged and no external call is made.
C30_OutOfRangeThrows ==
  [][/\ (last' # last /\ last'.op \in {"write32", "read32"}
           /\ last'.ea + 4 > SpRegLength) =>
          /\ last'.threw
          /\ last'.ret = {}
          /\ last'.nCause = 0 /\ last'.nDispatch = 0 /\ last'.nStart = 0
          /\ last'.dma = NoDma
          /\ semHist' = semHist
          /\ UNCHANGED DeviceState
     /\ (viLast' # viLast /\ viLast'.op \in {"write32", "read32"}
           /\ viLast'.ea + 4 > ViRegLength) =>
          /\ viLast'.threw
          /\ viLast'.ret = {}
          /\ viLast'.nCause = 0 /\ viLast'.nSched = 0
          /\ viLast'.nPresent = 0 /\ viLast'.nYield = 0
          /\ UNCHANGED DeviceState]_vars

\* C30 witness: with the SP interrupt raised, the semaphore written, V_SYNC
\* stored and the vblank event rescheduled by a vertical blank, a read of
\* the SP register file at 29 and a write of the VI register file at 62
\* have thrown.
C30_Witness ==
  /\ last.op = "read32" /\ last.ea = SpRegLength - 3 /\ last.threw
  /\ viLast.op = "write32" /\ viLast.ea = ViRegLength - 2 /\ viLast.threw
  /\ semHist = "written"
  /\ mi_intr = {0, 3}
  /\ getU32(sp_reg, SP_STATUS_REG) = SP_STATUS_SIG0
  /\ getU32(vi_reg, VI_V_SYNC_REG) = FromNat(524)
  /\ vi.curVbl = 1
  /\ vbl = [pending |-> TRUE, count |-> vi.countPerVbl]

\* The offsets SPRegDevice.writeReg32 and VIRegDevice.write32 dispatch on.
SpHandled == {SP_MEM_ADDR_REG, SP_DRAM_ADDR_REG, SP_RD_LEN_REG, SP_WR_LEN_REG,
              SP_STATUS_REG, SP_DMA_FULL_REG, SP_DMA_BUSY_REG, SP_SEMAPHORE_REG}
ViHandled == {VI_ORIGIN_REG, VI_CONTROL_REG, VI_WIDTH_REG, VI_INTR_REG,
              VI_CURRENT_REG, VI_V_SYNC_REG}

\* C31: a write32 to an unhandled register offset (in range, but not one of
\* the registers the device dispatches on) is non-fatal and stores the raw
\* written value at that offset; this holds for SPRegDevice, VIRegDevice
\* and SPIBISTDevice.
C31_UnhandledStored ==
  [][/\ (last' # last /\ last'.op = "write32" /\ last'.ea \notin SpHandled
           /\ last'.ea + 4 <= SpRegLength) =>
          (~last'.threw /\ sp_reg' = set32(sp_reg, last'.ea, last'.value))
     /\ (last' # last /\ last'.op = "ibist32" /\ last'.ea # SPIBIST_PC_REG
           /\ last'.ea + 4 <= SpIbistLength) =>
          (~last'.threw /\ sp_ibist' = set32(sp_ibist, last'.ea, last'.value))
     /\ (viLast' # viLast /\ viLast'.op = "write32" /\ viLast'.ea \notin ViHandled
           /\ viLast'.ea + 4 <= ViRegLength) =>
          (~viLast'.threw /\ vi_reg' = set32(vi_reg, viLast'.ea, viLast'.value))]_vars

\* The last step was a guest store of n bits into SP memory.
SpStored(n) ==
  last.op = (CASE n = 8 -> "spmem8" [] n = 16 -> "spmem16" [] n = 64 -> "spmem64")

\* The bits of sp_mem that differ between two buffers.
Differ(a, b) == (a \ b) \cup (b \ a)

\* C32: SP memory addressing wraps: the effective address of offset
\* (address - rangeStart) is offset mod 0x2000, so every store lands inside
\* the 0x2000 bytes of SP memory, in the word its wrapped offset names, and
\* offsets that differ by a multiple of 0x2000 access the same bytes.
C32_Wraps ==
  [][(SpStored(8)' \/ SpStored(16)' \/ SpStored(64)') =>
       LET ea == last'.ea % 8192
           base == IF SpStored(64)' THEN ea ELSE ea - (ea % 4)
       IN /\ \A b \in sp_mem' : b < 8 * SpMemLength
          /\ Differ(sp_mem, sp_mem') \subseteq (8 * base)..(8 * base + 31)
          /\ getU32(sp_mem', base) =
               getU32(CASE SpStored(8)' -> spMemWrite8(sp_mem, ea, last'.value)
                        [] SpStored(16)' -> spMemWrite16(sp_mem, ea, last'.value)
                        [] SpStored(64)' -> spMemWrite64(sp_mem, ea, last'.value),
                      base)]_vars

\* C32 witness: a byte store at offset 0x4007 has written the word at 4,
\* which a store at offset 0x2004 had written before.
C32_Witness ==
  /\ SpStored(8)
  /\ last.ea = 16384 + 7
  /\ last.value = Word(4660, 22136)
  /\ nMemWrites = 2
  /\ getU32(sp_mem, 4) = Word(4660, 22136)
  /\ sp_mem \subseteq (8 * 4)..(8 * 4 + 31)

\* C33: SP-memory narrow and wide stores: write8 overwrites the whole
\* aligned word containing ea with (v << 8*(3 - (ea & 3))) mod 2^32, write16
\* overwrites it with (v << 8*(2 - (ea & 2))) mod 2^32 (v is not masked and
\* the other bytes of the word are not preserved), and write64 writes only
\* the upper 32 bits of v at ea, leaving bytes ea+4..ea+7 unchanged.
C33_BrokenStores ==
  [][LET ea == last'.ea % 8192
         aligned == ea - (ea % 4)
         v == last'.value
         shifted(k) == {b + k : b \in v} \cap (0..31)
         word(at, w) == (sp_mem \ ((8 * at)..(8 * at + 31)))
                          \cup {BitAddr(at, i) : i \in w}
     IN /\ SpStored(8)' => sp_mem' = word(aligned, shifted(8 * (3 - (ea % 4))))
        /\ SpStored(16)' =>
             sp_mem' = word(aligned, shifted(8 * (2 - 2 * ((ea \div 2) % 2))))
        /\ SpStored(64)' =>
             sp_mem' = word(ea, {b - 32 : b \in v \cap (32..63)})]_vars

\* C33 witness: a halfword store of 0x12345678 at offset 1 has replaced the
\* word 0x000081a5 at 0 by 0x56780000.
C33_Witness ==
  /\ SpStored(16)
  /\ last.ea = 1
  /\ last.value = Word(4660, 22136)
  /\ nMemWrites = 2
  /\ sp_mem = {BitAddr(0, i) : i \in Word(22136, 0)}

\* C34: in every reachable state of the VI device in which the stored V_SYNC
\* is non-zero, the derived timing is consistent with it: countPerScanline =
\* floor(clock / refreshRate / (V_SYNC+1)) and countPerVbl = (V_SYNC+1) *
\* countPerScanline.
C34_TimingConsistent ==
  LET sync == getU32(vi_reg, VI_V_SYNC_REG)
  IN sync # {} =>
       /\ vi.countPerScanline = FloorPerScanline(sync)
       /\ vi.countPerVbl = (ToNat(sync) + 1) * vi.countPerScanline

\* C35: every vblank event the VI device schedules, from the V_INTR/V_SYNC
\* scheduling check or from a vertical-blank event rescheduling itself, is
\* scheduled a strictly positive number of cycles ahead: countPerVbl > 0 at
\* every call of addVblEvent, for every V_SYNC value the guest can write.
C35_ScheduledAhead ==
  [][(viLast' # viLast /\ viLast'.nSched > 0) =>
       (viLast'.schedArg > 0 /\ vbl'.count > 0)]_vars

\* The vblank events in the queue of the CPU when a VI step has ended: the
\* one pending before it, unless the step is its firing, which removes it,
\* plus one for every call of addVblEvent the step made.
EventsAfterStep ==
  (IF vbl.pending /\ viLast'.op # "vblank" THEN 1 ELSE 0) + viLast'.nSched

\* C36: at most one vblank event is pending in the cycle scheduler at any
\* time, over any interleaving of V_INTR writes, V_SYNC writes and
\* vertical-blank events (the scheduler removes the fired event before it
\* invokes verticalBlank).
C36_OnePending ==
  [][viLast' # viLast =>
       /\ EventsAfterStep <= 1
       /\ (vbl'.pending <=> (EventsAfterStep = 1))]_vars

\* C36 witness: with the event a vertical blank rescheduled still pending,
\* V_SYNC was rewritten above the stored V_INTR and nothing more was scheduled.
C36_Witness ==
  /\ VWrote(VI_V_SYNC_REG)
  /\ viLast.nSyncLog = 1
  /\ viLast.nSched = 0
  /\ ULt(getU32(vi_reg, VI_V_INTR_REG), getU32(vi_reg, VI_V_SYNC_REG))
  /\ nVbl >= 1
  /\ vbl.pending

\* A vertical blank has just fired and asserted the VI interrupt bit.
VblFired == viLast.op = "vblank" /\ MI_INTR_VI \subseteq mi_intr

\* C37: once a vblank event has been scheduled, vertical-blank events
\* recur: under a fair scheduler each firing schedules the next one, so
\* the VI interrupt bit is asserted again and again, and no later register
\* write (V_INTR >= V_SYNC, a new V_SYNC, a write of CURRENT) cancels the
\* pending event or stops the recurrence.  With k firings behind and an
\* event pending, firing k + 1 follows, for every k the model counts.
C37_Recurs ==
  /\ [](vbl.pending => [](vbl.pending))
  /\ \A k \in 0..(MaxVbl - 1) :
       (vbl.pending /\ nVbl = k) ~> (VblFired /\ nVbl = k + 1 /\ vi.curVbl = k + 1)

\* C37 witness: a second vertical blank has fired after V_INTR was set to
\* 0x3ff, above the stored V_SYNC, with the event pending.
C37_Witness ==
  /\ VblFired
  /\ nVbl = 2
  /\ vi.curVbl = 2
  /\ getU32(vi_reg, VI_V_INTR_REG) = Word(0, 1023)
  /\ getU32(vi_reg, VI_V_SYNC_REG) \in {Word(0, 524), Word(0, 262)}
  /\ vbl.pending

\* C38: while a vblank event is pending, every read of CURRENT returns a
\* scanline value in the range 0..V_SYNC, never negative and never above
\* the stored V_SYNC, also when V_SYNC was rewritten while an event
\* scheduled under the previous V_SYNC is still pending.
C38_CurrentInRange ==
  [][(VRead(VI_CURRENT_REG)' /\ vbl.pending) =>
       /\ 31 \notin viLast'.ret
       /\ ~ULt(getU32(vi_reg, VI_V_SYNC_REG), viLast'.ret)]_vars

\* The last operation was a STATUS write with CLR_HALT and without SET_HALT.
ClearedHalt ==
  /\ Wrote(SP_STATUS_REG)
  /\ last.value \cap SP_CLR_HALT # {}
  /\ last.value \cap SP_SET_HALT = {}

\* C39: in a STATUS write with CLR_HALT alone the updated STATUS is stored
\* before the task-dispatch/start hook runs: the hook observes HALT cleared
\* together with all other flag changes of the command word, and the bits
\* the hook sets (HALT, BROKE and TASKDONE via halt()) are still set when
\* the write returns, not overwritten by the command word's result.
C39_StoredBeforeHook ==
  ClearedHalt =>
    /\ last.nDispatch = 1
    /\ last.stored = statusFlags(last.status \ SP_STATUS_HALT, last.value)
    /\ last.stored \cap SP_STATUS_HALT = {}
    /\ RegRead(SP_STATUS_REG) =
         (IF last.hookHalts
            THEN last.stored \cup SP_STATUS_HALT \cup SP_STATUS_BROKE \cup SP_STATUS_TASKDONE
          ELSE last.stored)
    /\ (last.hookHalts /\ last.stored \cap SP_STATUS_INTR_BREAK # {}) =>
         (MI_INTR_SP \subseteq mi_intr /\ last.nCause >= 1)

\* C39 witness: on a halted device without INTR_BREAK, the command
\* CLR_HALT | SET_INTR_BREAK | CLR_SIG2 | SET_SIG7 was written and the hook
\* halted: halt() saw the INTR_BREAK of the same command and raised the SP
\* interrupt, and HALT, BROKE and TASKDONE are set after the write.
C39_Witness ==
  /\ ClearedHalt
  /\ last.value = SP_CLR_HALT \cup SP_SET_INTR_BREAK \cup SP_CLR_SIG2 \cup SP_SET_SIG7
  /\ last.hookHalts
  /\ SP_STATUS_HALT \subseteq last.status
  /\ last.status \cap SP_STATUS_INTR_BREAK = {}
  /\ last.mi \cap MI_INTR_SP = {}
  /\ MI_INTR_SP \subseteq mi_intr
  /\ RegRead(SP_STATUS_REG) =
       (last.status \ SP_STATUS_SIG2) \cup SP_STATUS_INTR_BREAK \cup SP_STATUS_SIG7
         \cup SP_STATUS_HALT \cup SP_STATUS_BROKE \cup SP_STATUS_TASKDONE

\* C40: a DMA modifies memory only on its destination side and only inside
\* the transferred ranges: an RD_LEN DMA leaves every RDRAM byte unchanged,
\* and a WR_LEN DMA leaves every SP-memory byte unchanged and changes only
\* the RDRAM bytes at dram + r*(len+skip) + i (0 <= r < count, 0 <= i < len),
\* so the skip gaps and all bytes outside the ranges keep their values.
C40_DmaFrame ==
  [][WroteLen' =>
       LET d == last'.dma
       IN IF last'.ea = SP_RD_LEN_REG
            THEN ram' = ram
          ELSE /\ sp_mem' = sp_mem
               /\ \A b \in Differ(ram, ram') :
                    \E r \in 0..(d.count - 1), i \in 0..(d.len - 1) :
                      b \div 8 = DmaDram + r * (d.len + d.skip) + i]_vars

\* C40 witness: after RD_LEN has copied 11 22 33 44 from RDRAM 0x1000 to SP
\* memory 0, WR_LEN = 0x00f0100f (len 16, count 2, skip 8) from SP 0xff8 to
\* RDRAM 0x1008 has written them to RDRAM 0x1010, and the word at RDRAM
\* 0x1000, outside the ranges, is kept.
C40_Witness ==
  /\ Wrote(SP_WR_LEN_REG)
  /\ last.value = Word(240, 4111)
  /\ last.dma.rdRamAddr = 4104 /\ last.dma.spMemAddr = 4088
  /\ last.dma.len = 16 /\ last.dma.count = 2 /\ last.dma.skip = 8
  /\ getU32(sp_mem, 0) = Word(4386, 13124)
  /\ getU32(ram, 4112) = Word(4386, 13124)
  /\ getU32(ram, 4096) = Word(4386, 13124)

====
